---- MODULE Spec2Model ----
(***************************************************************************)
(* Runtime loader / search layer of the medical-ontology service:          *)
(* the relevance scoring of the loaders, the index-restricted search of    *)
(* PreprocessedDataLoader, load() of every loader, and the orchestrators   *)
(* (OntologyLoader, OntologyManager, MedicalOntologyMCPServer).            *)
(*                                                                         *)
(* Text is a sequence of one-character strings, so that lower(),           *)
(* startswith(), `in` and the tokenizer are computed, not assumed.         *)
(* Scores are the code's floats times 100 (1.0 -> 100, 0.85 -> 85, ...).   *)
(***************************************************************************)
EXTENDS Integers, Sequences, FiniteSets, TLC

VARIABLES
    \* ---- scoring functions on one concept (SpecScore)
    query,          \* the query string handed to search()
    concept,        \* the concept record being scored
    scoredBy,       \* which scoring function has been applied ("none" before)
    score,          \* its result
    \* ---- one preprocessed store and its inverted index (SpecIndex)
    concepts,       \* the concept map, as the sequence of its records in
                    \* insertion order (a Python dict keeps that order)
    search_index,   \* token -> set of codes (a JSON list in no fixed order)
    limit,          \* the limit handed to search()
    results,        \* the sequence search() returned
    phase,          \* "raw", "indexed", "searched"
    \* ---- one loader object and its directory (SpecLoader)
    kind,           \* the loader's class
    disk,           \* the files of its directory
    loader,         \* the loader object
    lastCall,       \* the last load() call: the object and the directory
                    \* before it, how it ended, the files it read
    loadCalls,      \* number of load() calls made
    diskChanges,    \* number of times the directory changed
    flips,          \* number of times is_loaded went from false to true
    \* ---- one orchestrator and its loaders (Spec)
    orch,           \* the orchestrator's class: "Server" (MedicalOntologyServer
                    \* over OntologyLoader), "Manager" (OntologyManager),
                    \* "MCP" (MedicalOntologyMCPServer)
    disks,          \* the directory of every ontology
    loaders,        \* self.loaders: name -> loader object
    gens,           \* name -> number of loader objects constructed for it
    initPc,         \* "idle", "loading", "returned", "raised"
    pending,        \* the loads of the running initialize() not yet run
    outcome,        \* name -> how its load ended in the last initialize()
    is_initialized, \* is_initialized (OntologyManager: is_loaded)
    initCalls,      \* number of initialize() calls made
    loadsRun,       \* number of loader.load() calls made
    firstInit,      \* the loaders as the first initialize() left them
    response,       \* the answer to the last request
    \* ---- one source file, its parser and a search on the result (SpecParse)
    parser,         \* the parsing class: a loader or a preprocessor
    path,           \* "raw", "sample" or "preprocessed"
    source,         \* the records of the source file, in file order
    parsed,         \* how the parse ended and the concept map it built
    found,          \* the search made on that map
    \* ---- the hierarchy passes of the ICD-10 preprocessors (SpecHier)
    prep,           \* "text" (ICD10Preprocessor), "xml" (ICD10XMLPreprocessor),
                    \* "snomed" (SnomedPreprocessor, in SpecRebuild)
    lines,          \* the code records of the input, in file order
    codes,          \* codes: code -> record
    codeOrder,      \* the keys of codes in insertion order
    hierarchy,      \* hierarchy: parent code -> set of child codes
    hpc,            \* "start", "loaded", "walking", "inloop", "built", "rebuilt"
    todo,           \* the codes the ancestor loop has not reached yet
    current,        \* `current` of the ancestor loop ("" stands for None)
    ancestors,      \* `ancestors` of the ancestor loop
    \* ---- save_processed_data and the preprocessed load (SpecSave)
    saver,          \* the preprocessor that writes
    saved,          \* the concept map handed to save_processed_data
    files,          \* the output directory: file name -> chunk written
    metadata,       \* the partition keys recorded in metadata.json
    savePc,         \* "start", "saved", "reloaded"
    reloaded        \* the concept map of the loader after the load

scoreVars == <<concept, scoredBy, score>>
indexVars == <<concepts, search_index, limit, results, phase>>
loaderVars == <<kind, disk, loader, lastCall, loadCalls, diskChanges, flips>>
orchVars == <<orch, disks, loaders, gens, initPc, pending, outcome, is_initialized,
              initCalls, loadsRun, firstInit, response>>
parseVars == <<parser, path, source, parsed, found>>
hierVars == <<prep, lines, codes, codeOrder, hierarchy, hpc, todo, current, ancestors>>
saveVars == <<saver, saved, files, metadata, savePc, reloaded>>
restVars == <<parseVars, hierVars, saveVars>>
vars == <<query, scoreVars, indexVars, loaderVars, orchVars, restVars>>

----------------------------------------------------------------------------
(* Bounds *)
MaxLen == 2         \* longest text of the scoring inputs
MaxSyn == 2         \* longest synonym list of the scoring inputs
MaxWord == 3        \* longest description of the indexed store
MaxLimit == 2       \* largest limit handed to search()
MaxLoadCalls == 3   \* load() calls on one loader object
MaxDiskChanges == 1 \* changes of a directory between load() calls
MaxInitCalls == 2   \* initialize() calls on one orchestrator
MaxOnts == 2        \* longest list of ontology names in a search request

----------------------------------------------------------------------------
(* Text *)

Chars == {"a", "b", "A"}

\* str.lower() on one character
LowerChar(c) == IF c = "A" THEN "a" ELSE IF c = "B" THEN "b" ELSE c

\* str.lower()
Lower(s) == [i \in 1..Len(s) |-> LowerChar(s[i])]

\* str.startswith(): t.startswith(q)
StartsWith(t, q) == Len(q) <= Len(t) /\ SubSeq(t, 1, Len(q)) = q

\* Python's `q in t` on strings: q occurs in t as a contiguous run
Contains(q, t) ==
    \E i \in 0..(Len(t) - Len(q)) : SubSeq(t, i + 1, i + Len(q)) = q

\* all texts over cs of length at most n
Texts(cs, n) == UNION {[1..k -> cs] : k \in 0..n}

\* all sequences over S of length at most n
SeqsUpTo(S, n) == UNION {[1..k -> S] : k \in 0..n}

\* the value of a preferred_term that is None (a parser left it unset, or a
\* CSV row was short): .lower() on it raises AttributeError
None == <<"<None>">>

----------------------------------------------------------------------------
(* Relevance scoring, one operator per scoring function of the source *)

\* the three preferred-term tiers shared by the four concrete loaders
TermTiers(ql, tl) ==
    IF ql = tl THEN 100
    ELSE IF StartsWith(tl, ql) THEN 90
    ELSE IF Contains(ql, tl) THEN 80
    ELSE 0

\* ICD10Loader.search: preferred term only
ICD10Score(q, c) == TermTiers(Lower(q), Lower(c.preferred_term))

\* the tier of one synonym in SnomedLoader.search (0: no branch taken)
SnomedSynonymTier(ql, sl) ==
    IF ql = sl THEN 85
    ELSE IF StartsWith(sl, ql) THEN 75
    ELSE IF Contains(ql, sl) THEN 70
    ELSE 0

\* SnomedLoader.search: the synonym loop breaks at the first synonym for
\* which any branch is taken
SnomedScore(q, c) ==
    LET ql == Lower(q)
        tl == Lower(c.preferred_term)
        syn == c.synonyms
        hits == {i \in 1..Len(syn) : SnomedSynonymTier(ql, Lower(syn[i])) > 0}
        first == CHOOSE i \in hits : \A j \in hits : i <= j
    IN  IF TermTiers(ql, tl) > 0 THEN TermTiers(ql, tl)
        ELSE IF hits = {} THEN 0
        ELSE SnomedSynonymTier(ql, Lower(syn[first]))

\* RxNormLoader.search: one synonym tier (substring)
RxNormScore(q, c) ==
    LET ql == Lower(q)
        tl == Lower(c.preferred_term)
    IN  IF TermTiers(ql, tl) > 0 THEN TermTiers(ql, tl)
        ELSE IF \E i \in 1..Len(c.synonyms) : Contains(ql, Lower(c.synonyms[i]))
             THEN 70
        ELSE 0

\* LoincLoader.search: the short name takes the place of the synonyms
LoincScore(q, c) ==
    LET ql == Lower(q)
        tl == Lower(c.preferred_term)
        sl == Lower(c.short_name)
    IN  IF TermTiers(ql, tl) > 0 THEN TermTiers(ql, tl)
        ELSE IF ql = sl THEN 85
        ELSE IF sl # <<>> /\ Contains(ql, sl) THEN 75
        ELSE 0

\* PreprocessedDataLoader.calculate_relevance_score: the substring test comes
\* before the prefix test; the synonym loop runs over all synonyms with max()
RECURSIVE BaseSynonymLoop(_, _, _)
BaseSynonymLoop(ql, syn, acc) ==
    IF syn = <<>> THEN acc
    ELSE LET sl == Lower(Head(syn))
             nxt == IF ql = sl THEN (IF acc > 85 THEN acc ELSE 85)
                    ELSE IF Contains(ql, sl) THEN (IF acc > 70 THEN acc ELSE 70)
                    ELSE acc
         IN  BaseSynonymLoop(ql, Tail(syn), nxt)

BaseTermScore(ql, tl) ==
    IF ql = tl THEN 100
    ELSE IF Contains(ql, tl) THEN 80
    ELSE IF StartsWith(tl, ql) THEN 90
    ELSE 0

calculate_relevance_score(q, c) ==
    LET ql == Lower(q)
        s0 == BaseTermScore(ql, Lower(c.preferred_term))
    IN  IF s0 < 70 THEN BaseSynonymLoop(ql, c.synonyms, s0) ELSE s0

ScoreFunctions == {"ICD10", "SNOMED", "RxNorm", "LOINC", "Preprocessed"}

ScoreOf(fn, q, c) ==
    CASE fn = "ICD10" -> ICD10Score(q, c)
      [] fn = "SNOMED" -> SnomedScore(q, c)
      [] fn = "RxNorm" -> RxNormScore(q, c)
      [] fn = "LOINC" -> LoincScore(q, c)
      [] fn = "Preprocessed" -> calculate_relevance_score(q, c)

----------------------------------------------------------------------------
(* SpecScore: every scoring function on every small concept and query *)

ScoreTexts == Texts(Chars, MaxLen)

\* a concept carries synonyms (SNOMED, RxNorm, preprocessed data) or a short
\* name (LOINC)
ScoreConcepts ==
    [preferred_term : ScoreTexts, synonyms : SeqsUpTo(ScoreTexts, MaxSyn),
     short_name : {<<>>}]
    \cup
    [preferred_term : ScoreTexts, synonyms : {<<>>}, short_name : ScoreTexts]

\* the variables of the other specifications, parked
NoScore == concept = <<>> /\ scoredBy = "none" /\ score = 0
NoIndex ==
    /\ concepts = <<>>
    /\ search_index = <<>>
    /\ limit = 0
    /\ results = <<>>
    /\ phase = "raw"

NoLoader ==
    /\ kind = "none"
    /\ disk = <<>>
    /\ loader = <<>>
    /\ lastCall = <<>>
    /\ loadCalls = 0
    /\ diskChanges = 0
    /\ flips = 0

NoOrch ==
    /\ orch = "none"
    /\ disks = <<>>
    /\ loaders = <<>>
    /\ gens = <<>>
    /\ initPc = "idle"
    /\ pending = {}
    /\ outcome = <<>>
    /\ is_initialized = FALSE
    /\ initCalls = 0
    /\ loadsRun = 0
    /\ firstInit = <<>>
    /\ response = <<>>

NoParse ==
    /\ parser = "none"
    /\ path = "none"
    /\ source = <<>>
    /\ parsed = <<>>
    /\ found = <<>>

NoHier ==
    /\ prep = "none"
    /\ lines = <<>>
    /\ codes = <<>>
    /\ codeOrder = <<>>
    /\ hierarchy = <<>>
    /\ hpc = "none"
    /\ todo = <<>>
    /\ current = ""
    /\ ancestors = <<>>

NoSave ==
    /\ saver = "none"
    /\ saved = <<>>
    /\ files = <<>>
    /\ metadata = <<>>
    /\ savePc = "none"
    /\ reloaded = <<>>

NoRest == NoParse /\ NoHier /\ NoSave

InitScore ==
    /\ query \in ScoreTexts
    /\ concept \in ScoreConcepts
    /\ scoredBy = "none"
    /\ score = 0
    /\ NoIndex
    /\ NoLoader
    /\ NoOrch
    /\ NoRest

ApplyScore(fn) ==
    /\ scoredBy = "none"
    /\ scoredBy' = fn
    /\ score' = ScoreOf(fn, query, concept)
    /\ UNCHANGED <<query, concept, indexVars, loaderVars, orchVars, restVars>>

ScoreICD10 == ApplyScore("ICD10")
ScoreSnomed == ApplyScore("SNOMED")
ScoreRxNorm == ApplyScore("RxNorm")
ScoreLoinc == ApplyScore("LOINC")
ScorePreprocessed == ApplyScore("Preprocessed")

NextScore ==
    \/ ScoreICD10
    \/ ScoreSnomed
    \/ ScoreRxNorm
    \/ ScoreLoinc
    \/ ScorePreprocessed

SpecScore == InitScore /\ [][NextScore]_vars

----------------------------------------------------------------------------
(* Claims on the scoring functions *)

\* C1: for every scoring function, a query equal to the preferred term
\* (case-insensitively) scores 1.0, a proper prefix of it scores 0.9, and a
\* substring of it that is not a prefix scores 0.8.
C1_TermTiersEverywhere ==
    scoredBy # "none" =>
        LET ql == Lower(query)
            tl == Lower(concept.preferred_term)
        IN  /\ ql = tl => score = 100
            /\ (StartsWith(tl, ql) /\ ql # tl) => score = 90
            /\ (Contains(ql, tl) /\ ~StartsWith(tl, ql)) => score = 80

\* the highest synonym tier that applies to any synonym, whatever its place
BestSynonymTier(ql, syn) ==
    IF \E i \in 1..Len(syn) : ql = Lower(syn[i]) THEN 85
    ELSE IF \E i \in 1..Len(syn) : StartsWith(Lower(syn[i]), ql) THEN 75
    ELSE IF \E i \in 1..Len(syn) : Contains(ql, Lower(syn[i])) THEN 70
    ELSE 0

\* C2: when the query does not occur in the preferred term, SnomedLoader,
\* RxNormLoader and calculate_relevance_score give the highest synonym tier
\* that applies to any synonym (0.85 / 0.75 / 0.7, else excluded),
\* independently of the order of the synonyms.
C2_BestSynonymTier ==
    (scoredBy \in {"SNOMED", "RxNorm", "Preprocessed"}
        /\ ~Contains(Lower(query), Lower(concept.preferred_term)))
    => score = BestSynonymTier(Lower(query), concept.synonyms)

----------------------------------------------------------------------------
(* Tokenizers *)

Letters == {"a", "b", "t", "h", "e"}
Digits == {"1"}
\* \w of the regular expressions: letters, digits, underscore
WordChars == Letters \cup Digits \cup {"_"}

\* the maximal runs of characters of W in s, in order
RECURSIVE RunsFrom(_, _, _, _)
RunsFrom(s, i, cur, W) ==
    IF i > Len(s) THEN (IF cur = <<>> THEN <<>> ELSE <<cur>>)
    ELSE IF s[i] \in W THEN RunsFrom(s, i + 1, Append(cur, s[i]), W)
    ELSE (IF cur = <<>> THEN <<>> ELSE <<cur>>) \o RunsFrom(s, i + 1, <<>>, W)

Range(f) == {f[i] : i \in DOMAIN f}

\* str.split(): the runs of non-whitespace characters
WhitespaceSplit(s) == RunsFrom(s, 1, <<>>, Range(s) \ {" "})

\* re.findall(r'\b[a-z]+\b', text): a run of \w characters matches when it
\* consists of letters only (no boundary lies inside a run)
LetterWords(s) ==
    SelectSeq(RunsFrom(s, 1, <<>>, WordChars), LAMBDA w : Range(w) \subseteq Letters)

ICD10StopWords ==
    {<<"t", "h", "e">>, <<"a", "n", "d">>, <<"o", "r">>, <<"w", "i", "t", "h">>,
     <<"w", "i", "t", "h", "o", "u", "t">>, <<"i", "n">>, <<"o", "f">>,
     <<"t", "o">>, <<"f", "o", "r">>, <<"a", "s">>, <<"b", "y">>}

\* ICD10Preprocessor.tokenize
ICD10Tokenize(text) ==
    SelectSeq(LetterWords(Lower(text)),
              LAMBDA w : Len(w) > 2 /\ w \notin ICD10StopWords)

----------------------------------------------------------------------------
(* The inverted index and the index-restricted search *)

\* the tokens ICD10Preprocessor.create_search_index files a code under
IndexedTokens(c) ==
    Range(ICD10Tokenize(c.long_description))
    \cup (IF c.short_description # c.long_description
          THEN Range(ICD10Tokenize(c.short_description)) ELSE {})

\* ICD10Preprocessor.create_search_index
create_search_index(store) ==
    LET toks == UNION {IndexedTokens(store[i]) : i \in DOMAIN store}
    IN  [t \in toks |->
            {store[i].code : i \in {j \in DOMAIN store : t \in IndexedTokens(store[j])}}]

Codes(store) == {store[i].code : i \in DOMAIN store}
ConceptOf(store, code) == store[CHOOSE i \in DOMAIN store : store[i].code = code]

\* list.sort(key=score, reverse=True): stable, equal scores keep their order
RECURSIVE InsertByScore(_, _)
InsertByScore(r, sorted) ==
    IF sorted = <<>> THEN <<r>>
    ELSE IF Head(sorted).score >= r.score
         THEN <<Head(sorted)>> \o InsertByScore(r, Tail(sorted))
    ELSE <<r>> \o sorted

RECURSIVE SortByScore(_)
SortByScore(rs) ==
    IF rs = <<>> THEN <<>>
    ELSE InsertByScore(rs[Len(rs)], SortByScore(SubSeq(rs, 1, Len(rs) - 1)))

\* results[:limit]
Truncate(rs, n) == SubSeq(rs, 1, IF Len(rs) < n THEN Len(rs) ELSE n)

\* the codes search_with_index collects from the index
MatchingCodes(index, q) ==
    LET words == Range(WhitespaceSplit(Lower(q)))
    IN  UNION {index[w] : w \in words \cap DOMAIN index}

\* the scored results of search_with_index for the candidates taken in the
\* order `order` (the iteration order of a Python set)
RECURSIVE ScoreCandidates(_, _, _)
ScoreCandidates(store, q, order) ==
    IF order = <<>> THEN <<>>
    ELSE LET code == Head(order)
             rest == ScoreCandidates(store, q, Tail(order))
         IN  IF code \in Codes(store)
                /\ calculate_relevance_score(q, ConceptOf(store, code)) > 0
             THEN <<[code |-> code,
                     preferred_term |-> ConceptOf(store, code).preferred_term,
                     score |-> calculate_relevance_score(q, ConceptOf(store, code))]>>
                  \o rest
             ELSE rest

\* PreprocessedDataLoader.search_with_index
search_with_index(store, index, q, n, order) ==
    Truncate(SortByScore(ScoreCandidates(store, q, order)), n)

\* the orders in which a set can be iterated
Orders(S) == {o \in [1..Cardinality(S) -> S] : Range(o) = S}

----------------------------------------------------------------------------
(* SpecIndex: a store of ICD-10 records, its index, one search *)

MaxConcepts == 2
IndexCodes == <<"I10", "E11.9", "E11", "A00">>
IndexChars == {"a", "b", " "}
IndexTexts == Texts(IndexChars, MaxWord)
AltShort == <<"b", "a", "b">>

\* a record as ICD10Preprocessor.load_codes builds it (the fields the search
\* reads); preprocessed ICD-10 records carry no synonyms, read as []
ICD10Record(code, long, short) ==
    [code |-> code, preferred_term |-> long, long_description |-> long,
     short_description |-> short, synonyms |-> <<>>]

IndexStores ==
    UNION {
        {[i \in 1..n |-> ICD10Record(IndexCodes[i], longs[i],
                                     IF i = 1 /\ alt THEN AltShort ELSE longs[i])] :
            longs \in [1..n -> IndexTexts], alt \in BOOLEAN}
        : n \in 1..MaxConcepts}

InitIndex ==
    /\ concepts \in IndexStores
    /\ search_index = <<>>
    /\ query = <<>>
    /\ limit = 0
    /\ results = <<>>
    /\ phase = "raw"
    /\ NoScore
    /\ NoLoader
    /\ NoOrch
    /\ NoRest

\* the preprocessing run builds the index of the store
BuildIndex ==
    /\ phase = "raw"
    /\ search_index' = create_search_index(concepts)
    /\ phase' = "indexed"
    /\ UNCHANGED <<query, concepts, limit, results, scoreVars, loaderVars, orchVars, restVars>>

\* PreprocessedDataLoader.search with a non-empty index
SearchWithIndex ==
    /\ phase = "indexed"
    /\ DOMAIN search_index # {}
    /\ \E q \in IndexTexts, n \in 1..MaxLimit :
        \E order \in Orders(MatchingCodes(search_index, q)) :
            /\ query' = q
            /\ limit' = n
            /\ results' = search_with_index(concepts, search_index, q, n, order)
    /\ phase' = "searched"
    /\ UNCHANGED <<concepts, search_index, scoreVars, loaderVars, orchVars, restVars>>

NextIndex == BuildIndex \/ SearchWithIndex

SpecIndex == InitIndex /\ [][NextIndex]_vars

\* the (code, score) pairs of a linear scan with the same scoring function
LinearScanPairs(store, q) ==
    {<<store[i].code, calculate_relevance_score(q, store[i])>> :
        i \in {j \in DOMAIN store : calculate_relevance_score(q, store[j]) > 0}}

ResultPairs(rs) == {<<rs[i].code, rs[i].score>> : i \in DOMAIN rs}

\* C3: with the index its preprocessor built, search_with_index returns the
\* same (code, score) pairs as a linear scan with the same scoring function
\* (stated for a limit that truncates nothing).
C3_IndexEqualsLinearScan ==
    (phase = "searched" /\ limit >= Len(concepts))
    => ResultPairs(results) = LinearScanPairs(concepts, query)

----------------------------------------------------------------------------
(* Loaders: the files of one ontology directory and load() *)

Names == {"SNOMED", "ICD10", "RxNorm", "LOINC"}
\* the loader classes: the four concrete ones and PreprocessedDataLoader
Kinds == Names \cup {"Preprocessed"}

CodesOf(k) ==
    CASE k = "SNOMED" -> <<"44054006", "38341003", "73211009">>
      [] k = "ICD10" -> <<"E11.9", "I10", "E11">>
      [] k = "RxNorm" -> <<"6809", "1191", "29046">>
      [] k = "LOINC" -> <<"2345-7", "718-7", "2160-0">>
      [] k = "Preprocessed" -> <<"P1", "P2", "P3">>

\* a stored concept record (the fields search and get_concept read)
Rec(code, term, syn, short) ==
    [code |-> code, preferred_term |-> term, synonyms |-> syn, short_name |-> short]

\* the records the raw parser of k yields from a valid raw source
RawRows(k) ==
    <<Rec(CodesOf(k)[1], <<"a", "b">>, <<<<"b">>>>, <<"b">>),
      Rec(CodesOf(k)[2], <<"b", "A">>, <<>>, <<>>)>>

\* the records of sample_concepts.json; with `nullterm` one of them has a
\* null preferred_term
SampleRows(k, nullterm) ==
    <<Rec(CodesOf(k)[3], <<"a">>, <<>>, <<>>)>>
    \o (IF nullterm THEN <<Rec(CodesOf(k)[2], None, <<>>, <<>>)>> ELSE <<>>)

\* the chunk files of the preprocessed directory, in reading order (the
\* order of glob for PreprocessedDataLoader, where the chunk read first holds
\* a concept the raw source does not have)
ProcessedChunks(k) ==
    IF k = "Preprocessed"
    THEN <<  <<Rec(CodesOf(k)[3], <<"b">>, <<>>, <<>>)>>,
             <<Rec(CodesOf(k)[1], <<"a", "b", "b">>, <<>>, <<>>)>>  >>
    ELSE <<  <<Rec(CodesOf(k)[1], <<"a", "b", "b">>, <<>>, <<>>)>>,
             <<Rec(CodesOf(k)[3], <<"b">>, <<>>, <<>>)>>  >>

\* search_index.json.gz of the preprocessed directory
ProcessedIndex(k) ==
    create_search_index(
        [i \in 1..1 |-> ICD10Record(CodesOf(k)[1], <<"a", "b", "b">>, <<"a", "b", "b">>)])

\* dict assignment self.concepts[code] = rec: an existing key keeps its place
Put(store, rec) ==
    IF rec.code \in Codes(store)
    THEN [i \in DOMAIN store |-> IF store[i].code = rec.code THEN rec ELSE store[i]]
    ELSE Append(store, rec)

\* dict.update / a loop of assignments
RECURSIVE PutAll(_, _)
PutAll(store, recs) ==
    IF recs = <<>> THEN store ELSE PutAll(Put(store, Head(recs)), Tail(recs))

\* a loader object after __init__
FreshLoader ==
    [is_loaded |-> FALSE, concepts |-> <<>>, used_preprocessed |-> FALSE,
     search_index |-> <<>>]

\* the directory of one ontology:
\*   processed: "absent" | "valid" | "badmeta" (reading metadata.json raises)
\*              | "badchunk" (the second chunk file raises)
\*   sample:    "absent" | "valid" | "nullterm"
\*   raw:       "missing" | "valid" | "corrupt" (raises after the first record)
DiskStates(k) ==
    [processed : IF k \in {"ICD10", "Preprocessed"}
                 THEN {"absent", "valid", "badmeta", "badchunk"} ELSE {"absent"},
     sample : IF k = "Preprocessed" THEN {"absent"} ELSE {"absent", "valid", "nullterm"},
     raw : {"missing", "valid", "corrupt"}]

Returned(ld, n) == [ld |-> ld, outcome |-> "returned", reads |-> n]
Raised(ld, n) == [ld |-> ld, outcome |-> "raised", reads |-> n]

\* the end of a successful load path: self.is_loaded = True
Loaded(ld, store) == [ld EXCEPT !.concepts = store, !.is_loaded = TRUE]

\* _load_sample_data of the four loaders
LoadSample(k, ld, d) ==
    Returned(Loaded(ld, PutAll(ld.concepts, SampleRows(k, d.sample = "nullterm"))), 1)

\* the raw files a parser opens (SNOMED: concepts and descriptions)
RawFiles(k) == IF k = "SNOMED" THEN 2 ELSE 1

\* the raw parsers: SnomedLoader collects into a local map and stores at the
\* end; the others fill self.concepts record by record
LoadRaw(k, ld, d) ==
    CASE d.raw = "missing" -> Raised(ld, 0)
      [] d.raw = "corrupt" ->
            IF k = "SNOMED" THEN Raised(ld, RawFiles(k))
            ELSE Raised([ld EXCEPT !.concepts = Put(ld.concepts, RawRows(k)[1])],
                        RawFiles(k))
      [] d.raw = "valid" ->
            Returned(Loaded(ld, PutAll(ld.concepts, RawRows(k))), RawFiles(k))

\* ICD10Loader._load_preprocessed_data: no exception is caught
ICD10LoadPreprocessed(ld, d) ==
    CASE d.processed = "badmeta" -> Raised(ld, 1)
      [] d.processed = "badchunk" ->
            Raised([ld EXCEPT !.concepts =
                        PutAll(ld.concepts, ProcessedChunks("ICD10")[1])], 2)
      [] d.processed = "valid" ->
            Returned(Loaded(ld, PutAll(PutAll(ld.concepts, ProcessedChunks("ICD10")[1]),
                                       ProcessedChunks("ICD10")[2])), 3)

\* ICD10Loader.load
ICD10Load(ld, d) ==
    IF ld.is_loaded THEN Returned(ld, 0)
    ELSE IF d.processed # "absent" THEN ICD10LoadPreprocessed(ld, d)
    ELSE IF d.sample # "absent" THEN LoadSample("ICD10", ld, d)
    ELSE LoadRaw("ICD10", ld, d)

\* SnomedLoader.load, RxNormLoader.load, LoincLoader.load
SampleOrRawLoad(k, ld, d) ==
    IF ld.is_loaded THEN Returned(ld, 0)
    ELSE IF d.sample # "absent" THEN LoadSample(k, ld, d)
    ELSE LoadRaw(k, ld, d)

\* PreprocessedDataLoader.load_preprocessed
load_preprocessed(ld, d) ==
    CASE d.processed = "badmeta" -> Raised(ld, 1)
      [] d.processed = "badchunk" ->
            Raised([ld EXCEPT !.concepts =
                        PutAll(ld.concepts, ProcessedChunks("Preprocessed")[1])], 2)
      [] d.processed = "valid" ->
            Returned([ld EXCEPT
                        !.concepts = PutAll(PutAll(ld.concepts,
                                                   ProcessedChunks("Preprocessed")[1]),
                                            ProcessedChunks("Preprocessed")[2]),
                        !.search_index = ProcessedIndex("Preprocessed")], 4)

\* PreprocessedDataLoader.load: no is_loaded test; any exception of the
\* preprocessed path is caught and load_raw runs on the object as it then is
PreprocessedLoad(ld, d) ==
    LET pre == load_preprocessed(ld, d)
        viaRaw(l, n) ==
            LET r == LoadRaw("Preprocessed", l, d)
            IN  [r EXCEPT !.reads = r.reads + n]
    IN  IF d.processed = "absent" THEN viaRaw(ld, 0)
        ELSE IF pre.outcome = "returned"
             THEN Returned([pre.ld EXCEPT !.used_preprocessed = TRUE,
                                          !.is_loaded = TRUE], pre.reads)
        ELSE viaRaw(pre.ld, pre.reads)

\* loader.load() of class k
LoadCall(k, ld, d) ==
    CASE k = "ICD10" -> ICD10Load(ld, d)
      [] k = "Preprocessed" -> PreprocessedLoad(ld, d)
      [] OTHER -> SampleOrRawLoad(k, ld, d)

----------------------------------------------------------------------------
(* SpecLoader: one loader object, load() called repeatedly, the directory
   changing in between *)

InitLoader ==
    /\ kind \in Kinds
    /\ disk \in DiskStates(kind)
    /\ loader = FreshLoader
    /\ lastCall = [made |-> FALSE, before |-> FreshLoader, disk |-> disk,
                   outcome |-> "none", reads |-> 0]
    /\ loadCalls = 0
    /\ diskChanges = 0
    /\ flips = 0
    /\ query = <<>>
    /\ NoScore
    /\ NoIndex
    /\ NoOrch
    /\ NoRest

\* a caller awaits loader.load()
Load ==
    /\ loadCalls < MaxLoadCalls
    /\ LET r == LoadCall(kind, loader, disk)
       IN  /\ loader' = r.ld
           /\ lastCall' = [made |-> TRUE, before |-> loader, disk |-> disk,
                           outcome |-> r.outcome, reads |-> r.reads]
           /\ flips' = IF ~loader.is_loaded /\ r.ld.is_loaded THEN flips + 1 ELSE flips
    /\ loadCalls' = loadCalls + 1
    /\ UNCHANGED <<kind, disk, diskChanges, query, scoreVars, indexVars, orchVars, restVars>>

\* between two calls the files change (a preprocessing run, a repaired or a
\* removed file)
DiskChange ==
    /\ diskChanges < MaxDiskChanges
    /\ disk' \in DiskStates(kind) \ {disk}
    /\ diskChanges' = diskChanges + 1
    /\ UNCHANGED <<kind, loader, lastCall, loadCalls, flips, query, scoreVars, indexVars, orchVars, restVars>>

NextLoader == Load \/ DiskChange

SpecLoader == InitLoader /\ [][NextLoader]_vars

\* C8: PreprocessedDataLoader.load and ICD10Loader.load: when the preprocessed
\* directory and its metadata.json exist but reading the manifest or a chunk
\* raises, load() does not raise because of it and runs the raw parser; with a
\* valid raw source the loader ends with is_loaded = true.
C8_CorruptPreprocessedFallsBack ==
    (/\ lastCall.made
     /\ kind \in {"ICD10", "Preprocessed"}
     /\ lastCall.disk.processed \in {"badmeta", "badchunk"}
     /\ lastCall.disk.raw = "valid")
    => (lastCall.outcome = "returned" /\ loader.is_loaded)

\* C9: for every loader a load() after a successful load is a no-op: it reads
\* no file and leaves the concept map, the search index and is_loaded
\* unchanged; is_loaded goes from false to true at most once.
C9_ReloadIsNoOp ==
    /\ (lastCall.made /\ lastCall.before.is_loaded)
        => (lastCall.reads = 0 /\ loader = lastCall.before)
    /\ flips <= 1

----------------------------------------------------------------------------
(* Search and lookup of one loader *)

\* .lower() on a preferred_term that is None raises inside the scoring loop
SearchRaises(ld) ==
    \E i \in DOMAIN ld.concepts : ld.concepts[i].preferred_term = None

\* the scored records of a loader's search loop, in concept-map order
RECURSIVE ScoreAll(_, _, _)
ScoreAll(k, store, q) ==
    IF store = <<>> THEN <<>>
    ELSE LET c == Head(store)
             rest == ScoreAll(k, Tail(store), q)
         IN  IF ScoreOf(k, q, c) > 0
             THEN <<[code |-> c.code, preferred_term |-> c.preferred_term,
                     score |-> ScoreOf(k, q, c)]>> \o rest
             ELSE rest

\* loader.search(query, limit) of class k: the sequence it returns, or the
\* exception it raises
LoaderSearch(k, ld, q, n) ==
    IF SearchRaises(ld) THEN [raised |-> TRUE, value |-> <<>>]
    ELSE [raised |-> FALSE,
          value |-> Truncate(SortByScore(ScoreAll(k, ld.concepts, q)), n)]

\* str.upper() on the codes of the requests
UpperCode(code) == IF code = "e11.9" THEN "E11.9" ELSE code

\* a lookup that normalises the case of the code first
LoaderGetConceptUpper(ld, code) ==
    IF UpperCode(code) \in Codes(ld.concepts)
    THEN <<ConceptOf(ld.concepts, UpperCode(code))>> ELSE <<>>

\* loader.get_concept(code): self.concepts.get(code); <<>> stands for None
LoaderGetConcept(ld, code) ==
    IF code \in Codes(ld.concepts) THEN <<ConceptOf(ld.concepts, code)>> ELSE <<>>

----------------------------------------------------------------------------
(* Orchestrators *)

Orchestrators == {"Server", "Manager", "MCP"}

\* the order of self.loaders (dict insertion order)
LoaderOrder(o) ==
    IF o = "MCP" THEN <<"ICD10", "RxNorm", "SNOMED", "LOINC">>
    ELSE <<"SNOMED", "ICD10", "RxNorm", "LOINC">>

\* results[key] = value
Assign(map, key, value) ==
    [x \in DOMAIN map \cup {key} |-> IF x = key THEN value ELSE map[x]]

\* what a caught search exception leaves as the entry
EntryOf(sr) == IF sr.raised THEN <<>> ELSE sr.value

\* OntologyLoader.search: one task per requested name that has a loader, then
\* zip(ontologies, search_results) pairs the i-th requested name with the
\* i-th task's result
RECURSIVE ZipAssign(_, _, _)
ZipAssign(keys, vals, map) ==
    IF keys = <<>> \/ vals = <<>> THEN map
    ELSE ZipAssign(Tail(keys), Tail(vals), Assign(map, Head(keys), EntryOf(Head(vals))))

OntologyLoaderSearch(lds, q, onts, n) ==
    LET tasks == SelectSeq(onts, LAMBDA o : o \in DOMAIN lds)
        search_results == [i \in DOMAIN tasks |-> LoaderSearch(tasks[i], lds[tasks[i]], q, n)]
    IN  ZipAssign(onts, search_results, <<>>)

\* OntologyManager.search: names without a loader are skipped
RECURSIVE ManagerLoop(_, _, _, _, _)
ManagerLoop(lds, q, onts, n, map) ==
    IF onts = <<>> THEN map
    ELSE LET o == Head(onts)
         IN  ManagerLoop(lds, q, Tail(onts), n,
                 IF o \in DOMAIN lds
                 THEN Assign(map, o, EntryOf(LoaderSearch(o, lds[o], q, n)))
                 ELSE map)

\* the keys of self.loaders in order
LoaderKeys(o, lds) == SelectSeq(LoaderOrder(o), LAMBDA x : x \in DOMAIN lds)

OntologyManagerSearch(lds, q, onts, n) ==
    ManagerLoop(lds, q, IF onts = <<>> THEN LoaderKeys("Manager", lds) ELSE onts, n, <<>>)

\* MedicalOntologyMCPServer.search: names without a loader get []
RECURSIVE MCPLoop(_, _, _, _, _)
MCPLoop(lds, q, onts, n, map) ==
    IF onts = <<>> THEN map
    ELSE LET o == Head(onts)
         IN  MCPLoop(lds, q, Tail(onts), n,
                 Assign(map, o, IF o \in DOMAIN lds
                                THEN EntryOf(LoaderSearch(o, lds[o], q, n))
                                ELSE <<>>))

MCPSearchResult(lds, q, onts, n) ==
    MCPLoop(lds, q, IF onts = <<>> THEN LoaderKeys("MCP", lds) ELSE onts, n, <<>>)

\* how initialize() ends once every load has run: asyncio.gather with
\* return_exceptions=True, and the try/except around each sequential load,
\* swallow the loaders' exceptions
InitializeEndsUncaught(outs) ==
    IF \E o \in DOMAIN outs : outs[o] = "raised" THEN "raised" ELSE "returned"

InitializeEnds(outs) == "returned"

----------------------------------------------------------------------------
(* Spec: one orchestrator, its initialize() and its requests *)

\* the directories the orchestrator is started on
OrchDisks(o) ==
    {[processed |-> "absent", sample |-> "absent", raw |-> "valid"],
     [processed |-> "absent", sample |-> "absent", raw |-> "missing"]}
    \cup (IF o \in {"SNOMED", "ICD10"}
          THEN {[processed |-> "absent", sample |-> "nullterm", raw |-> "missing"]}
          ELSE {})
    \cup (IF o = "ICD10"
          THEN {[processed |-> "valid", sample |-> "absent", raw |-> "valid"],
                [processed |-> "badchunk", sample |-> "absent", raw |-> "valid"]}
          ELSE {})

RequestNames == {"SNOMED", "ICD10", "BOGUS"}
RequestLists == SeqsUpTo(RequestNames, MaxOnts)
RequestQueries == {<<"a">>, <<"b", "a">>}
RequestCodes == {"E11.9", "e11.9"}

NoResponse ==
    [op |-> "none", outcome |-> "none", query |-> <<>>, onts |-> <<>>, limit |-> 0,
     code |-> "", value |-> <<>>]

Init ==
    /\ orch \in Orchestrators
    /\ disks \in [Names -> UNION {OrchDisks(o) : o \in Names}]
    /\ \A o \in Names : disks[o] \in OrchDisks(o)
    \* OntologyLoader.__init__ constructs the loaders; the other two
    \* orchestrators start with self.loaders = {}
    /\ loaders = IF orch = "Server" THEN [o \in Names |-> FreshLoader] ELSE <<>>
    /\ gens = [o \in Names |-> IF orch = "Server" THEN 1 ELSE 0]
    /\ initPc = "idle"
    /\ pending = {}
    /\ outcome = [o \in Names |-> "none"]
    /\ is_initialized = FALSE
    /\ initCalls = 0
    /\ loadsRun = 0
    /\ firstInit = [done |-> FALSE, loaders |-> <<>>, gens |-> <<>>, loadsRun |-> 0]
    /\ response = NoResponse
    /\ query = <<>>
    /\ NoScore
    /\ NoIndex
    /\ NoLoader
    /\ NoRest

Quiet == initPc \in {"idle", "returned"}
OtherVars == <<query, scoreVars, indexVars, loaderVars, restVars>>

\* MedicalOntologyServer.initialize up to load_all's gather
ServerInitialize ==
    /\ orch = "Server" /\ Quiet /\ initCalls < MaxInitCalls
    /\ initCalls' = initCalls + 1
    /\ response' = NoResponse
    /\ IF is_initialized
       THEN /\ initPc' = "returned"
            /\ UNCHANGED <<pending, outcome>>
       ELSE /\ initPc' = "loading"
            /\ pending' = DOMAIN loaders
            /\ outcome' = [o \in Names |-> "none"]
    /\ UNCHANGED <<orch, disks, loaders, gens, is_initialized, loadsRun, firstInit, OtherVars>>

\* OntologyManager.initialize up to its loading loop: no test of is_loaded,
\* four new loader objects replace the old ones
ManagerInitialize ==
    /\ orch = "Manager" /\ Quiet /\ initCalls < MaxInitCalls
    /\ initCalls' = initCalls + 1
    /\ response' = NoResponse
    /\ loaders' = [o \in Names |-> FreshLoader]
    /\ gens' = [o \in Names |-> gens[o] + 1]
    /\ initPc' = "loading"
    /\ pending' = Names
    /\ outcome' = [o \in Names |-> "none"]
    /\ UNCHANGED <<orch, disks, is_initialized, loadsRun, firstInit, OtherVars>>

\* MedicalOntologyMCPServer.initialize up to its loading loop
MCPInitialize ==
    /\ orch = "MCP" /\ Quiet /\ initCalls < MaxInitCalls
    /\ initCalls' = initCalls + 1
    /\ response' = NoResponse
    /\ IF is_initialized
       THEN /\ initPc' = "returned"
            /\ UNCHANGED <<loaders, gens, pending, outcome>>
       ELSE /\ loaders' = [o \in Names |-> FreshLoader]
            /\ gens' = [o \in Names |-> gens[o] + 1]
            /\ initPc' = "loading"
            /\ pending' = Names
            /\ outcome' = [o \in Names |-> "none"]
    /\ UNCHANGED <<orch, disks, is_initialized, loadsRun, firstInit, OtherVars>>

\* the next load of a sequential loop
NextInOrder(o) ==
    LET rest == SelectSeq(LoaderOrder(o), LAMBDA x : x \in pending)
    IN  Head(rest)

\* one loader.load() of the running initialize(): load() never suspends, so
\* it runs as one step; gather runs its tasks in any order, the loops of the
\* other orchestrators in dict order
RunLoad(o) ==
    /\ initPc = "loading"
    /\ o \in pending
    /\ orch # "Server" => o = NextInOrder(orch)
    /\ LET r == LoadCall(o, loaders[o], disks[o])
       IN  /\ loaders' = [loaders EXCEPT ![o] = r.ld]
           /\ outcome' = [outcome EXCEPT ![o] = r.outcome]
    /\ pending' = pending \ {o}
    /\ loadsRun' = loadsRun + 1
    /\ UNCHANGED <<orch, disks, gens, initPc, is_initialized, initCalls, firstInit,
                   response, OtherVars>>

\* the end of initialize() once every load has run
FinishInitialize ==
    /\ initPc = "loading"
    /\ pending = {}
    /\ initPc' = InitializeEnds(outcome)
    /\ is_initialized' = (InitializeEnds(outcome) = "returned" \/ is_initialized)
    /\ firstInit' = IF firstInit.done THEN firstInit
                    ELSE [done |-> TRUE, loaders |-> loaders, gens |-> gens,
                          loadsRun |-> loadsRun]
    /\ UNCHANGED <<orch, disks, loaders, gens, pending, outcome, initCalls, loadsRun,
                   response, OtherVars>>

Answer(op, out, q, onts, n, code, value) ==
    [op |-> op, outcome |-> out, query |-> q, onts |-> onts, limit |-> n,
     code |-> code, value |-> value]

RequestFrame ==
    UNCHANGED <<orch, disks, loaders, gens, initPc, pending, outcome, is_initialized,
                initCalls, loadsRun, firstInit, OtherVars>>

\* OntologyLoader.search
OLSearch ==
    /\ orch = "Server" /\ Quiet
    /\ \E q \in RequestQueries, onts \in RequestLists, n \in 1..MaxLimit :
        response' = Answer("search", "returned", q, onts, n, "",
                           OntologyLoaderSearch(loaders, q, onts, n))
    /\ RequestFrame

\* OntologyManager.search
OMSearch ==
    /\ orch = "Manager" /\ Quiet
    /\ \E q \in RequestQueries, onts \in RequestLists, n \in 1..MaxLimit :
        response' = Answer("search", "returned", q, onts, n, "",
                           OntologyManagerSearch(loaders, q, onts, n))
    /\ RequestFrame

\* the loading loop of initialize() run to its end
RECURSIVE RunLoads(_, _, _)
RunLoads(order, lds, outs) ==
    IF order = <<>> THEN [loaders |-> lds, outcome |-> outs]
    ELSE LET o == Head(order)
             r == LoadCall(o, lds[o], disks[o])
         IN  RunLoads(Tail(order), [lds EXCEPT ![o] = r.ld],
                      [outs EXCEPT ![o] = r.outcome])

\* `if not self.is_initialized: await self.initialize()` at the head of the
\* requests of MedicalOntologyMCPServer
MCPReady ==
    IF is_initialized
    THEN [loaders |-> loaders, outcome |-> outcome, gens |-> gens, ran |-> 0]
    ELSE LET r == RunLoads(LoaderOrder("MCP"), [o \in Names |-> FreshLoader],
                           [o \in Names |-> "none"])
         IN  [loaders |-> r.loaders, outcome |-> r.outcome,
              gens |-> [o \in Names |-> gens[o] + 1], ran |-> Cardinality(Names)]

MCPRequestFrame(st) ==
    /\ loaders' = st.loaders
    /\ outcome' = st.outcome
    /\ gens' = st.gens
    /\ loadsRun' = loadsRun + st.ran
    /\ initPc' = IF is_initialized THEN initPc ELSE InitializeEnds(st.outcome)
    /\ is_initialized' = TRUE
    /\ firstInit' = IF firstInit.done THEN firstInit
                    ELSE [done |-> TRUE, loaders |-> st.loaders, gens |-> st.gens,
                          loadsRun |-> loadsRun + st.ran]
    /\ UNCHANGED <<orch, disks, pending, initCalls, OtherVars>>

\* MedicalOntologyMCPServer.search
MCPSearch ==
    /\ orch = "MCP" /\ Quiet
    /\ LET st == MCPReady
       IN  /\ \E q \in RequestQueries, onts \in RequestLists, n \in 1..MaxLimit :
                response' = Answer("search", "returned", q, onts, n, "",
                                   MCPSearchResult(st.loaders, q, onts, n))
           /\ MCPRequestFrame(st)

\* OntologyLoader.get_concept: ValueError for a name without a loader
OLGetConcept ==
    /\ orch = "Server" /\ Quiet
    /\ \E o \in RequestNames, code \in RequestCodes :
        response' =
            IF o \in DOMAIN loaders
            THEN Answer("get_concept", "returned", <<>>, <<o>>, 0, code,
                        LoaderGetConcept(loaders[o], code))
            ELSE Answer("get_concept", "unknown_ontology", <<>>, <<o>>, 0, code, <<>>)
    /\ RequestFrame

\* OntologyManager.get_concept: None for a name without a loader
OMGetConcept ==
    /\ orch = "Manager" /\ Quiet
    /\ \E o \in RequestNames, code \in RequestCodes :
        response' = Answer("get_concept", "returned", <<>>, <<o>>, 0, code,
                           IF o \in DOMAIN loaders
                           THEN LoaderGetConcept(loaders[o], code) ELSE <<>>)
    /\ RequestFrame

\* MedicalOntologyMCPServer.get_concept: None for a name without a loader
MCPGetConcept ==
    /\ orch = "MCP" /\ Quiet
    /\ LET st == MCPReady
       IN  /\ \E o \in RequestNames, code \in RequestCodes :
                response' = Answer("get_concept", "returned", <<>>, <<o>>, 0, code,
                                   IF o \in DOMAIN st.loaders
                                   THEN LoaderGetConcept(st.loaders[o], code) ELSE <<>>)
           /\ MCPRequestFrame(st)

\* a stored record after `concept[name] = value`
WithField(rec, name, value) ==
    [x \in DOMAIN rec \cup {name} |-> IF x = name THEN value ELSE rec[x]]

\* self.concepts[code] after the caller assigned to the dict it was handed
StoreWith(store, code, rec) ==
    [i \in DOMAIN store |-> IF store[i].code = code THEN rec ELSE store[i]]

\* OntologyLoader.get_relationships and get_mappings: placeholders
Relationships == [parents |-> <<>>, children |-> <<>>]
Mappings == <<>>

\* the get_concept tool of MedicalOntologyServer: the dict that
\* loader.get_concept returns is the stored record itself, and the tool
\* assigns 'relationships' and 'mappings' to it
ToolGetConcept ==
    /\ orch = "Server" /\ Quiet
    /\ \E o \in RequestNames, code \in RequestCodes, rel \in BOOLEAN, map \in BOOLEAN :
        IF o \notin DOMAIN loaders
        THEN /\ response' = Answer("tool_get_concept", "unknown_ontology", <<>>, <<o>>,
                                   0, code, <<>>)
             /\ UNCHANGED loaders
        ELSE IF LoaderGetConcept(loaders[o], code) = <<>>
        THEN /\ response' = Answer("tool_get_concept", "raised", <<>>, <<o>>, 0, code,
                                   <<>>)
             /\ UNCHANGED loaders
        ELSE LET c0 == LoaderGetConcept(loaders[o], code)[1]
                 c1 == IF rel THEN WithField(c0, "relationships", Relationships) ELSE c0
                 c2 == IF map THEN WithField(c1, "mappings", Mappings) ELSE c1
             IN  /\ loaders' = [loaders EXCEPT
                                    ![o].concepts = StoreWith(loaders[o].concepts, code, c2)]
                 /\ response' = Answer("tool_get_concept", "returned", <<>>, <<o>>, 0,
                                       code, <<c2>>)
    /\ UNCHANGED <<orch, disks, gens, initPc, pending, outcome, is_initialized,
                   initCalls, loadsRun, firstInit, OtherVars>>

\* OntologyLoader.get_relationships / get_mappings
OLGetRelationships ==
    /\ orch = "Server" /\ Quiet
    /\ \E o \in RequestNames, code \in RequestCodes, which \in {"relationships", "mappings"} :
        response' = Answer(which, "returned", <<>>, <<o>>, 0, code,
                           IF which = "mappings" THEN Mappings ELSE Relationships)
    /\ RequestFrame

\* a status that calls a loader loaded as soon as its map holds a concept
StatusOfNonEmpty(lds) ==
    [o \in DOMAIN lds |->
        [loaded |-> lds[o].concepts # <<>>, concept_count |-> Len(lds[o].concepts)]]

\* the per-ontology part of get_status
StatusOf(lds) ==
    [o \in DOMAIN lds |->
        [loaded |-> lds[o].is_loaded, concept_count |-> Len(lds[o].concepts)]]

\* OntologyManager.get_status and MedicalOntologyMCPServer.get_status
GetStatus ==
    /\ orch \in {"Manager", "MCP"} /\ Quiet
    /\ response' = Answer("get_status", "returned", <<>>, <<>>, 0, "", StatusOf(loaders))
    /\ RequestFrame

Next ==
    \/ ServerInitialize
    \/ ManagerInitialize
    \/ MCPInitialize
    \/ \E o \in Names : RunLoad(o)
    \/ FinishInitialize
    \/ OLSearch
    \/ OMSearch
    \/ MCPSearch
    \/ OLGetConcept
    \/ OMGetConcept
    \/ MCPGetConcept
    \/ GetStatus

Spec == Init /\ [][Next]_vars

\* C14: a get_concept(ontology, code) request on an ontology that has a
\* loader returns normally; it returns the stored concept whose key is exactly
\* the code when there is one and null otherwise (a code that differs from a
\* stored key only in case is not found), and it changes nothing of the
\* orchestrator and its loaders.
C14_GetConceptIsExactLookup ==
    [][(/\ response' # response
        /\ response'.op = "get_concept"
        /\ response'.onts[1] \in DOMAIN loaders)
       => LET store == loaders[response'.onts[1]].concepts
              hits == {i \in DOMAIN store : store[i].code = response'.code}
          IN  /\ response'.outcome = "returned"
              /\ IF hits = {} THEN response'.value = <<>>
                 ELSE \E i \in hits : response'.value = <<store[i]>>
              /\ UNCHANGED <<orch, disks, loaders, gens, initPc, pending, outcome,
                             is_initialized, initCalls, loadsRun, firstInit>>]_vars

\* "e11.9" was asked of an ICD10 loader that holds "E11.9", and null came back
C14_CaseVariantNotFound ==
    /\ response.op = "get_concept"
    /\ response.outcome = "returned"
    /\ response.onts = <<"ICD10">>
    /\ response.code = "e11.9"
    /\ response.value = <<>>
    /\ "ICD10" \in DOMAIN loaders
    /\ "E11.9" \in Codes(loaders["ICD10"].concepts)

\* C19: a get_status request made after initialize() has returned reports
\* one entry per configured ontology; an entry's loaded flag is true exactly
\* when that loader's load() returned without raising, its concept_count is
\* the size of that loader's map, and the entries with loaded = false are as
\* many as the loaders whose load raised.
C19_StatusShowsDegradation ==
    [][(/\ response' # response
        /\ response'.op = "get_status"
        /\ initPc = "returned")
       => LET st == response'.value
          IN  /\ DOMAIN st = DOMAIN loaders
              /\ \A o \in DOMAIN st :
                    /\ st[o].loaded = (outcome[o] = "returned")
                    /\ st[o].concept_count = Len(loaders[o].concepts)
              /\ Cardinality({o \in DOMAIN st : ~st[o].loaded})
                    = Cardinality({o \in DOMAIN loaders : outcome[o] = "raised"})]_vars

\* a status with a failed loader next to a loaded one, the failed one
\* holding the concepts of the chunks read before the failure
C19_DegradedStatus ==
    /\ response.op = "get_status"
    /\ initPc = "returned"
    /\ DOMAIN response.value = Names
    /\ \E o, p \in Names :
          /\ ~response.value[o].loaded
          /\ outcome[o] = "raised"
          /\ response.value[o].concept_count > 0
          /\ response.value[p].loaded

\* the names a search request asks for
Requested(o, r) ==
    IF r.onts = <<>> /\ o # "Server" THEN Names ELSE Range(r.onts)

\* what the loader of k itself answers to the request r
OwnEntry(k, r) == EntryOf(LoaderSearch(k, loaders[k], r.query, r.limit))

\* C4: OntologyLoader.search, for every list of requested names (names
\* without a loader included): each key of the returned map holds the result
\* of that same ontology's loader, and every requested ontology that has a
\* loader is a key.
C4_KeysHoldOwnResults ==
    (orch = "Server" /\ response.op = "search")
    => /\ \A k \in DOMAIN response.value :
            k \in DOMAIN loaders /\ response.value[k] = OwnEntry(k, response)
       /\ \A k \in Requested(orch, response) :
            k \in DOMAIN loaders => k \in DOMAIN response.value

\* C5: loading is best effort: whatever subset of the loads raises, in
\* whatever order they run, initialize() does not raise, every loader whose
\* load returned has is_loaded = true and every loader whose load raised has
\* is_loaded = false.
C5_BestEffortLoading ==
    /\ initPc # "raised"
    /\ initPc = "returned"
        => \A o \in DOMAIN loaders :
            /\ outcome[o] = "returned" => loaders[o].is_loaded
            /\ outcome[o] = "raised" => ~loaders[o].is_loaded

C5_SomeRaisedSomeLoaded ==
    /\ orch = "Server"
    /\ initPc = "returned"
    /\ is_initialized
    /\ \E o \in Names : outcome[o] = "raised" /\ ~loaders[o].is_loaded
    /\ \E o \in Names : outcome[o] = "returned" /\ loaders[o].is_loaded

\* C6: in a multi-ontology search where the search of one requested
\* ontology raises, the search returns, that ontology's entry is empty and
\* the entry of every other requested ontology is what its loader returned.
C6_FailedSearchIsIsolated ==
    (/\ response.op = "search"
     /\ \E k \in Requested(orch, response) :
            k \in DOMAIN loaders /\ SearchRaises(loaders[k]))
    => /\ response.outcome = "returned"
       /\ \A k \in Requested(orch, response) :
            k \in DOMAIN loaders
            => /\ k \in DOMAIN response.value
               /\ response.value[k] = OwnEntry(k, response)

\* C7: every search and get_concept entry point given an ontology name
\* that has no loader answers with a distinct unknown-ontology outcome.
C7_UnknownOntologyIsDistinct ==
    (/\ response.op \in {"search", "get_concept"}
     /\ \E i \in DOMAIN response.onts : response.onts[i] \notin Names)
    => response.outcome = "unknown_ontology"

\* C10: after a completed first initialize(), a further call creates no
\* loader object, runs no load and leaves every loader as it was.
C10_InitializeIsIdempotent ==
    firstInit.done
    => /\ gens = firstInit.gens
       /\ loadsRun = firstInit.loadsRun
       /\ loaders = firstInit.loaders

----------------------------------------------------------------------------
(* SpecSearch: one loaded loader of any class, one search, and the re-sort
   of SearchEngine on its result *)

MaxStore == 3
SearchCodes == <<"C1", "C2", "C3">>
SearchTerms == {<<"a", "b", "a">>, <<"A", "b", "a">>, <<"a", "b">>, <<"b">>}
SearchQueries == {<<"a", "b", "a">>, <<"a", "b">>, <<"b">>}

\* a stored record with the fields every search and the indexer read
SearchRec(code, term, syn, short) ==
    [code |-> code, preferred_term |-> term, synonyms |-> syn, short_name |-> short,
     long_description |-> term, short_description |-> term]

SearchShapes ==
    [term : SearchTerms, syn : {<<>>, <<<<"a", "b">>>>}, short : {<<>>}]
    \cup [term : SearchTerms, syn : {<<>>}, short : {<<"a", "b">>}]

SearchStores ==
    UNION {{[i \in 1..n |-> SearchRec(SearchCodes[i], sh[i].term, sh[i].syn, sh[i].short)] :
                sh \in [1..n -> SearchShapes]} : n \in 1..MaxStore}

InitSearch ==
    /\ kind \in Kinds
    /\ concepts \in SearchStores
    /\ search_index = IF kind = "Preprocessed" THEN create_search_index(concepts)
                      ELSE <<>>
    /\ query = <<>>
    /\ limit = 0
    /\ results = <<>>
    /\ phase = "raw"
    /\ disk = <<>>
    /\ loader = <<>>
    /\ lastCall = <<>>
    /\ loadCalls = 0
    /\ diskChanges = 0
    /\ flips = 0
    /\ NoScore
    /\ NoOrch
    /\ NoRest

SearchFrame ==
    UNCHANGED <<kind, concepts, search_index, disk, loader, lastCall, loadCalls,
                diskChanges, flips, scoreVars, orchVars, restVars>>

\* search(query, limit) of one of the four concrete loaders
ConcreteSearch ==
    /\ phase = "raw"
    /\ kind \in Names
    /\ \E q \in SearchQueries, n \in 1..MaxLimit :
        /\ query' = q
        /\ limit' = n
        /\ results' = LoaderSearch(kind, [FreshLoader EXCEPT !.concepts = concepts],
                                   q, n).value
    /\ phase' = "searched"
    /\ SearchFrame

\* PreprocessedDataLoader.search with a loaded index: the candidates are
\* scored in the iteration order of the set matching_codes
PreprocessedSearch ==
    /\ phase = "raw"
    /\ kind = "Preprocessed"
    /\ DOMAIN search_index # {}
    /\ \E q \in SearchQueries, n \in 1..MaxLimit :
        \E order \in Orders(MatchingCodes(search_index, q)) :
            /\ query' = q
            /\ limit' = n
            /\ results' = search_with_index(concepts, search_index, q, n, order)
    /\ phase' = "searched"
    /\ SearchFrame

\* SearchEngine._apply_fuzzy_scoring: a result without 'score' would get a
\* SequenceMatcher ratio, but every loader result carries its score, so only
\* the stable re-sort acts
FuzzyRescore ==
    /\ phase = "searched"
    /\ kind \in Names
    /\ results' = SortByScore(results)
    /\ phase' = "rescored"
    /\ UNCHANGED <<query, limit>>
    /\ SearchFrame

NextSearch == ConcreteSearch \/ PreprocessedSearch \/ FuzzyRescore

SpecSearch == InitSearch /\ [][NextSearch]_vars

\* the place of a code in the concept map
PlaceOf(store, code) == CHOOSE i \in DOMAIN store : store[i].code = code

\* r comes before c in the stable descending order of the scored concept map
Before(store, sr, cr, sc, cc) ==
    sr > sc \/ (sr = sc /\ PlaceOf(store, cr) < PlaceOf(store, cc))

\* C11: the sequence a loader search returns is the first `limit` elements of
\* the stable descending sort of all concepts with a positive score taken in
\* concept-map order: positive scores only, non-increasing, equal scores in
\* map order, at most `limit` long, and nothing left out that sorts before a
\* returned element or that would still fit.
C11_StableSortedPrefix ==
    phase \in {"searched", "rescored"} =>
        LET positive == {i \in DOMAIN concepts : ScoreOf(kind, query, concepts[i]) > 0}
            returned == {results[i].code : i \in DOMAIN results}
        IN  /\ Len(results) = (IF Cardinality(positive) < limit
                               THEN Cardinality(positive) ELSE limit)
            /\ \A i \in DOMAIN results :
                /\ results[i].code \in {concepts[j].code : j \in positive}
                /\ results[i].score
                    = ScoreOf(kind, query, ConceptOf(concepts, results[i].code))
            /\ \A i, j \in DOMAIN results :
                i < j => Before(concepts, results[i].score, results[i].code,
                                results[j].score, results[j].code)
            /\ \A j \in positive :
                concepts[j].code \notin returned
                => \A i \in DOMAIN results :
                    Before(concepts, results[i].score, results[i].code,
                           ScoreOf(kind, query, concepts[j]), concepts[j].code)

----------------------------------------------------------------------------
(* SpecParse: the records of one source file, the parser that reads them
   (a loader's raw or sample path, or a preprocessor whose output a
   preprocessed loader reads back), and a search on the resulting map *)

MaxRows == 3
RowCodes == <<"R1", "R2", "R3">>
RowTerms == {<<"a", "b", "a">>, <<"a", "b">>}

RuntimeParsers == {"SNOMED", "ICD10", "RxNorm", "LOINC"}
Preprocessors ==
    {"SnomedPreprocessor", "ICD10Preprocessor", "RxNormPreprocessor",
     "LoincPreprocessor"}

\* the ontology a parser reads
OntologyOf(ps) ==
    CASE ps \in {"SNOMED", "SnomedPreprocessor"} -> "SNOMED"
      [] ps \in {"ICD10", "ICD10Preprocessor"} -> "ICD10"
      [] ps \in {"RxNorm", "RxNormPreprocessor"} -> "RxNorm"
      [] ps \in {"LOINC", "LoincPreprocessor"} -> "LOINC"

\* one record of a source file:
\*   active: SNOMED active = 1, LOINC STATUS in ACTIVE / TRIAL (the other
\*           two sources carry no status)
\*   shape:  "ok"; "short" (the line ends after the identifier: too few
\*           fields, the later columns are missing); "badrank" (LOINC: a
\*           COMMON_TEST_RANK that is not a number)
RowShapes(o, p) ==
    IF p = "sample" THEN {"ok"}
    ELSE {"ok", "short"} \cup (IF o = "LOINC" THEN {"badrank"} ELSE {})

RowsOf(o, p) ==
    UNION {{[i \in 1..n |-> [code |-> RowCodes[i], term |-> f[i].term,
                             active |-> f[i].active, shape |-> f[i].shape]] :
                f \in [1..n -> [term : RowTerms,
                                active : IF o \in {"SNOMED", "LOINC"} THEN BOOLEAN
                                         ELSE {TRUE},
                                shape : RowShapes(o, p)]]} : n \in 1..MaxRows}

\* the concept a parser builds from a well-formed record
RowConcept(r) == Rec(r.code, r.term, <<>>, <<>>)

\* the raw parsers of the four loaders, record by record:
\*   ICD10Loader    keeps a line of at least 9 fields
\*   RxNormLoader   keeps a line of at least 15 fields
\*   SnomedLoader   keeps a concept whose active column is '1' and which
\*                  has a preferred term (a missing column reads as None)
\*   LoincLoader    keeps every row with a LOINC_NUM, whatever its STATUS;
\*                  the missing columns of a short row read as None
RECURSIVE RuntimeRaw(_, _, _)
RuntimeRaw(k, rows, store) ==
    IF rows = <<>> THEN store
    ELSE LET r == Head(rows)
             nxt ==
                CASE k = "LOINC" ->
                        IF r.shape = "short"
                        THEN Put(store, Rec(r.code, None, <<>>, None))
                        ELSE Put(store, RowConcept(r))
                  [] k = "SNOMED" ->
                        IF r.shape # "short" /\ r.active
                        THEN Put(store, RowConcept(r)) ELSE store
                  [] OTHER ->
                        IF r.shape # "short" THEN Put(store, RowConcept(r)) ELSE store
         IN  RuntimeRaw(k, Tail(rows), nxt)

\* _load_sample_data: every record of sample_concepts.json is stored as it is
RECURSIVE RuntimeSample(_, _)
RuntimeSample(rows, store) ==
    IF rows = <<>> THEN store
    ELSE RuntimeSample(Tail(rows), Put(store, RowConcept(Head(rows))))

\* the concept loading of the preprocessors, record by record:
\*   LoincPreprocessor  skips a STATUS outside ACTIVE / TRIAL (a missing
\*                      column included), then converts COMMON_TEST_RANK
\*                      with int(), which raises ValueError on a non-number
\*   SnomedPreprocessor keeps the concepts whose active column is '1'
\*   ICD10Preprocessor, RxNormPreprocessor skip the lines with too few fields
RECURSIVE PreprocessorLoad(_, _, _)
PreprocessorLoad(ps, rows, store) ==
    IF rows = <<>> THEN [outcome |-> "returned", concepts |-> store]
    ELSE LET r == Head(rows)
         IN  CASE ps = "LoincPreprocessor" ->
                    IF r.shape = "short" \/ ~r.active
                    THEN PreprocessorLoad(ps, Tail(rows), store)
                    ELSE IF r.shape = "badrank"
                    THEN [outcome |-> "raised", concepts |-> <<>>]
                    ELSE PreprocessorLoad(ps, Tail(rows), Put(store, RowConcept(r)))
               [] ps = "SnomedPreprocessor" ->
                    PreprocessorLoad(ps, Tail(rows),
                        IF r.shape # "short" /\ r.active
                        THEN Put(store, RowConcept(r)) ELSE store)
               [] OTHER ->
                    PreprocessorLoad(ps, Tail(rows),
                        IF r.shape # "short" THEN Put(store, RowConcept(r)) ELSE store)

ParseOf(ps, p, rows) ==
    CASE p = "raw" -> [outcome |-> "returned", concepts |-> RuntimeRaw(ps, rows, <<>>)]
      [] p = "sample" -> [outcome |-> "returned", concepts |-> RuntimeSample(rows, <<>>)]
      [] p = "preprocessed" -> PreprocessorLoad(ps, rows, <<>>)

InitParse ==
    /\ parser \in RuntimeParsers \cup Preprocessors
    /\ path \in (IF parser \in RuntimeParsers THEN {"raw", "sample"}
                 ELSE {"preprocessed"})
    /\ source \in RowsOf(OntologyOf(parser), path)
    /\ parsed = [outcome |-> "none", concepts |-> <<>>]
    /\ found = [made |-> FALSE, raised |-> FALSE, value |-> <<>>]
    /\ query = <<>>
    /\ NoScore
    /\ NoIndex
    /\ NoLoader
    /\ NoOrch
    /\ NoHier
    /\ NoSave

ParseFrame ==
    UNCHANGED <<scoreVars, indexVars, loaderVars, orchVars, hierVars, saveVars>>

\* the parser reads the file
Parse ==
    /\ parsed.outcome = "none"
    /\ parsed' = ParseOf(parser, path, source)
    /\ UNCHANGED <<parser, path, source, found, query>>
    /\ ParseFrame

\* the index over the preferred terms that the preprocessors write
TermIndex(store) ==
    create_search_index(
        [i \in DOMAIN store |->
            ICD10Record(store[i].code, store[i].preferred_term, store[i].preferred_term)])

\* search() on the map: the loader's own search after a raw or sample load
\* and for preprocessed ICD-10 data; PreprocessedDataLoader.search on the
\* preprocessed data of the other ontologies
SearchParsed ==
    /\ parsed.outcome = "returned"
    /\ ~found.made
    /\ \E q \in RowTerms, n \in 1..MaxLimit :
        /\ query' = q
        /\ IF path # "preprocessed" \/ parser = "ICD10Preprocessor"
           THEN LET r == LoaderSearch(OntologyOf(parser),
                                      [FreshLoader EXCEPT !.concepts = parsed.concepts],
                                      q, n)
                IN  found' = [made |-> TRUE, raised |-> r.raised, value |-> r.value]
           ELSE \E order \in Orders(MatchingCodes(TermIndex(parsed.concepts), q)) :
                    found' = [made |-> TRUE, raised |-> FALSE,
                              value |-> search_with_index(parsed.concepts,
                                            TermIndex(parsed.concepts), q, n, order)]
    /\ UNCHANGED <<parser, path, source, parsed>>
    /\ ParseFrame

NextParse == Parse \/ SearchParsed

SpecParse == InitParse /\ [][NextParse]_vars

\* the source record of a code
RowOf(code) == source[CHOOSE i \in DOMAIN source : source[i].code = code]

\* C12: no search returns a concept whose source record is inactive, for
\* every loader and every load path (raw, sample, preprocessed).
C12_NoInactiveInResults ==
    found.made =>
        \A i \in DOMAIN found.value : RowOf(found.value[i].code).active

\* a record the parser cannot read as a concept: too few fields, or a value
\* of the wrong form in a field that the parser converts
Malformed(ps, r) ==
    \/ r.shape = "short"
    \/ r.shape = "badrank" /\ ps = "LoincPreprocessor"

\* C18: for every raw parser of the runtime loaders and every preprocessor,
\* a source with malformed records (too few fields, a non-numeric
\* COMMON_TEST_RANK) is read to its end without an exception, no malformed
\* record is in the resulting map, and every well-formed active record is in
\* it with its term.
C18_MalformedRecordIsSkipped ==
    (parsed.outcome # "none" /\ path # "sample") =>
        /\ parsed.outcome = "returned"
        /\ \A i \in DOMAIN source :
              IF Malformed(parser, source[i])
              THEN source[i].code \notin Codes(parsed.concepts)
              ELSE source[i].active =>
                    /\ source[i].code \in Codes(parsed.concepts)
                    /\ ConceptOf(parsed.concepts, source[i].code).preferred_term
                          = source[i].term

----------------------------------------------------------------------------
(* SpecRequests: an orchestrator whose initialize() has completed, and the
   requests it then serves *)

InitRequests ==
    /\ orch \in Orchestrators
    /\ disks \in [Names -> UNION {OrchDisks(o) : o \in Names}]
    /\ \A o \in Names : disks[o] \in OrchDisks(o)
    /\ LET r == RunLoads(LoaderOrder(orch), [o \in Names |-> FreshLoader],
                         [o \in Names |-> "none"])
       IN  /\ loaders = r.loaders
           /\ outcome = r.outcome
           /\ firstInit = [done |-> TRUE, loaders |-> r.loaders,
                           gens |-> [o \in Names |-> 1], loadsRun |-> Cardinality(Names)]
    /\ gens = [o \in Names |-> 1]
    /\ initPc = "returned"
    /\ pending = {}
    /\ is_initialized = TRUE
    /\ initCalls = 1
    /\ loadsRun = Cardinality(Names)
    /\ response = NoResponse
    /\ query = <<>>
    /\ NoScore
    /\ NoIndex
    /\ NoLoader
    /\ NoRest

NextRequests ==
    \/ OLSearch
    \/ OMSearch
    \/ MCPSearch
    \/ OLGetConcept
    \/ OMGetConcept
    \/ MCPGetConcept
    \/ ToolGetConcept
    \/ OLGetRelationships
    \/ GetStatus

SpecRequests == InitRequests /\ [][NextRequests]_vars

\* C13: once the loads have completed, no search, get_concept, get_status,
\* get_relationships or get_mappings request (the get_concept tool with
\* include_relationships or include_mappings included) changes the key set
\* of a concept map or a field of a stored concept record.
C13_RequestsAreReadOnly ==
    [][\A o \in DOMAIN loaders : loaders'[o].concepts = loaders[o].concepts]_vars

----------------------------------------------------------------------------
(* SpecLimit: searches with a caller-specified limit on an orchestrator whose
   ICD-10 directory holds fewer or more codes than the upper bound of the
   limit *)

\* the upper bound of SearchParameters.limit (Field(10, ge=1, le=100)), scaled
\* from 100 to the size of the model's concept maps
MaxSearchLimit == 3
\* how far the limits and the number of stored codes go beyond MaxSearchLimit
MaxExcess == 2

LimitValues == {1, MaxSearchLimit, MaxSearchLimit + 1, MaxSearchLimit + MaxExcess}
LimitStoreSizes == {MaxSearchLimit - 1, MaxSearchLimit + MaxExcess}
LimitLists == {<<>>, <<"ICD10">>, <<"BOGUS", "ICD10">>, <<"SNOMED", "ICD10">>}

\* the concept map after a load of n well-formed codes
BigStore(n) ==
    [i \in 1..n |-> Rec(ToString(i), IF i % 2 = 0 THEN <<"a">> ELSE <<"a", "b">>,
                        <<>>, <<>>)]

InitLimit ==
    /\ orch \in Orchestrators
    /\ disks = [o \in Names |-> [processed |-> "absent", sample |-> "absent",
                                 raw |-> "valid"]]
    /\ \E n \in LimitStoreSizes :
        loaders = [o \in Names |->
                      Loaded(FreshLoader, IF o = "ICD10" THEN BigStore(n) ELSE <<>>)]
    /\ outcome = [o \in Names |-> "returned"]
    /\ firstInit = [done |-> TRUE, loaders |-> loaders,
                    gens |-> [o \in Names |-> 1], loadsRun |-> Cardinality(Names)]
    /\ gens = [o \in Names |-> 1]
    /\ initPc = "returned"
    /\ pending = {}
    /\ is_initialized = TRUE
    /\ initCalls = 1
    /\ loadsRun = Cardinality(Names)
    /\ response = NoResponse
    /\ query = <<>>
    /\ NoScore
    /\ NoIndex
    /\ NoLoader
    /\ NoRest

\* OntologyLoader.search called with the caller's limit
OLSearchLimit ==
    /\ orch = "Server"
    /\ \E q \in RequestQueries, onts \in LimitLists, n \in LimitValues :
        response' = Answer("search", "returned", q, onts, n, "",
                           OntologyLoaderSearch(loaders, q, onts, n))
    /\ RequestFrame

\* SimpleHTTPHandler.do_GET on /search: limit = int(query_params['limit']),
\* handed to OntologyManager.search
HTTPSearch ==
    /\ orch = "Manager"
    /\ \E q \in RequestQueries, onts \in LimitLists, n \in LimitValues :
        response' = Answer("search", "returned", q, onts, n, "",
                           OntologyManagerSearch(loaders, q, onts, n))
    /\ RequestFrame

\* MedicalOntologyMCPServer.search called with the caller's limit
MCPSearchLimit ==
    /\ orch = "MCP"
    /\ \E q \in RequestQueries, onts \in LimitLists, n \in LimitValues :
        response' = Answer("search", "returned", q, onts, n, "",
                           MCPSearchResult(loaders, q, onts, n))
    /\ RequestFrame

\* SearchEngine.search with fuzzy = True: every entry is sorted again
FuzzySearch(lds, q, onts, n) ==
    LET r == OntologyLoaderSearch(lds, q, onts, n)
    IN  [o \in DOMAIN r |-> SortByScore(r[o])]

\* the search tool of MedicalOntologyServer: SearchParameters rejects a limit
\* above its upper bound before the tool body runs
ToolSearch ==
    /\ orch = "Server"
    /\ \E q \in RequestQueries, onts \in LimitLists \ {<<>>}, n \in LimitValues :
        response' = IF n > MaxSearchLimit
                    THEN Answer("tool_search", "rejected", q, onts, n, "", <<>>)
                    ELSE Answer("tool_search", "returned", q, onts, n, "",
                                FuzzySearch(loaders, q, onts, n))
    /\ RequestFrame

NextLimit ==
    \/ OLSearchLimit
    \/ HTTPSearch
    \/ MCPSearchLimit
    \/ ToolSearch

SpecLimit == InitLimit /\ [][NextLimit]_vars

\* C20: whatever limit the caller passes, no entry of a search response of
\* OntologyLoader.search, OntologyManager.search, MedicalOntologyMCPServer.search
\* or the search tool is longer than MaxSearchLimit.
C20_LimitIsCapped ==
    response.op \in {"search", "tool_search"} =>
        \A o \in DOMAIN response.value : Len(response.value[o]) <= MaxSearchLimit

----------------------------------------------------------------------------
(* SpecHier: load_codes and build_relationships of ICD10Preprocessor, and
   process_diagnoses and build_relationships of ICD10XMLPreprocessor *)

MaxLines == 3
\* the length up to which the model keeps `ancestors`; longer than every
\* chain of distinct codes, so that only a walk that revisits a code reaches it
MaxChain == 4

HCodes == {"E11", "E11.9", "E11.65"}

\* the lines of icd10cm_order: the code and the parent column ("" when empty)
TextSources ==
    UNION {[1..n -> [code : HCodes, parent : HCodes \cup {""}]] : n \in 1..MaxLines}

\* the <diag> elements of the XML file in document order: the parent of an
\* element is the element that encloses it
Nestings(n) ==
    {par \in [1..n -> 0..(n - 1)] :
        /\ \A i \in 1..n : par[i] < i
        /\ \A i, k \in 1..n : (par[i] < k /\ k < i) => par[k] >= par[i]}

XMLSources ==
    UNION {{[i \in 1..n |-> [code |-> name[i],
                             parent |-> IF par[i] = 0 THEN "" ELSE name[par[i]]]] :
                name \in [1..n -> HCodes], par \in Nestings(n)} : n \in 1..MaxLines}

\* ICD10Preprocessor.load_codes: a later line with the same code replaces the
\* record; hierarchy[parent].add(code) accumulates
RECURSIVE load_codes(_, _, _, _)
load_codes(ls, cs, ord, h) ==
    IF ls = <<>> THEN [codes |-> cs, order |-> ord, hierarchy |-> h]
    ELSE LET l == Head(ls)
             rec == [code |-> l.code, parent_code |-> l.parent, children |-> {},
                     ancestors |-> <<>>, siblings |-> {}]
         IN  load_codes(Tail(ls), Assign(cs, l.code, rec),
                        IF l.code \in Range(ord) THEN ord ELSE Append(ord, l.code),
                        IF l.parent # ""
                        THEN Assign(h, l.parent,
                                    (IF l.parent \in DOMAIN h THEN h[l.parent] ELSE {})
                                        \cup {l.code})
                        ELSE h)

\* ICD10XMLPreprocessor.process_diagnoses over the whole document: the
\* records carry no 'ancestors' field
RECURSIVE process_diagnoses(_, _, _)
process_diagnoses(ls, cs, ord) ==
    IF ls = <<>> THEN [codes |-> cs, order |-> ord]
    ELSE LET l == Head(ls)
             rec == [code |-> l.code, parent_code |-> l.parent, children |-> <<>>]
         IN  process_diagnoses(Tail(ls), Assign(cs, l.code, rec),
                               IF l.code \in Range(ord) THEN ord ELSE Append(ord, l.code))

InitHier ==
    /\ prep \in {"text", "xml"}
    /\ lines \in (IF prep = "text" THEN TextSources ELSE XMLSources)
    /\ codes = <<>>
    /\ codeOrder = <<>>
    /\ hierarchy = <<>>
    /\ hpc = "start"
    /\ todo = <<>>
    /\ current = ""
    /\ ancestors = <<>>
    /\ query = <<>>
    /\ NoScore
    /\ NoIndex
    /\ NoLoader
    /\ NoOrch
    /\ NoParse
    /\ NoSave

HierFrame ==
    UNCHANGED <<query, scoreVars, indexVars, loaderVars, orchVars, parseVars, saveVars>>

\* load_codes
LoadCodes ==
    /\ prep = "text" /\ hpc = "start"
    /\ LET r == load_codes(lines, <<>>, <<>>, <<>>)
       IN  /\ codes' = r.codes
           /\ codeOrder' = r.order
           /\ hierarchy' = r.hierarchy
    /\ hpc' = "loaded"
    /\ UNCHANGED <<prep, lines, todo, current, ancestors>>
    /\ HierFrame

\* build_relationships, first loop: codes[parent]['children'] = list(children)
\* (kept as the set: the list has the set's elements in no fixed order)
AddChildren ==
    /\ prep = "text" /\ hpc = "loaded"
    /\ codes' = [c \in DOMAIN codes |->
                    IF c \in DOMAIN hierarchy
                    THEN [codes[c] EXCEPT !.children = hierarchy[c]] ELSE codes[c]]
    /\ todo' = codeOrder
    /\ hpc' = "walking"
    /\ UNCHANGED <<prep, lines, codeOrder, hierarchy, current, ancestors>>
    /\ HierFrame

\* second loop, the head of one iteration: ancestors = [],
\* current = code.get('parent_code')
WalkStart ==
    /\ prep = "text" /\ hpc = "walking" /\ todo # <<>>
    /\ ancestors' = <<>>
    /\ current' = codes[Head(todo)].parent_code
    /\ hpc' = "inloop"
    /\ UNCHANGED <<prep, lines, codes, codeOrder, hierarchy, todo>>
    /\ HierFrame

\* one turn of `while current and current in codes`; the loop has no other
\* exit, and of a list longer than MaxChain the model keeps the first
\* MaxChain entries
WalkStep ==
    /\ prep = "text" /\ hpc = "inloop"
    /\ current # "" /\ current \in DOMAIN codes
    /\ ancestors' = IF Len(ancestors) < MaxChain THEN Append(ancestors, current)
                    ELSE ancestors
    /\ current' = codes[current].parent_code
    /\ UNCHANGED <<prep, lines, codes, codeOrder, hierarchy, hpc, todo>>
    /\ HierFrame

\* the loop condition is false: code['ancestors'] = ancestors
WalkEnd ==
    /\ prep = "text" /\ hpc = "inloop"
    /\ ~(current # "" /\ current \in DOMAIN codes)
    /\ codes' = [codes EXCEPT ![Head(todo)].ancestors = ancestors]
    /\ todo' = Tail(todo)
    /\ hpc' = "walking"
    /\ UNCHANGED <<prep, lines, codeOrder, hierarchy, current, ancestors>>
    /\ HierFrame

\* third loop: siblings; build_relationships returns
Siblings ==
    /\ prep = "text" /\ hpc = "walking" /\ todo = <<>>
    /\ codes' = [c \in DOMAIN codes |->
                    IF codes[c].parent_code # "" /\ codes[c].parent_code \in DOMAIN hierarchy
                    THEN [codes[c] EXCEPT
                            !.siblings = hierarchy[codes[c].parent_code] \ {c}]
                    ELSE codes[c]]
    /\ hpc' = "built"
    /\ UNCHANGED <<prep, lines, codeOrder, hierarchy, todo, current, ancestors>>
    /\ HierFrame

\* ICD10XMLPreprocessor.parse_xml
XMLParse ==
    /\ prep = "xml" /\ hpc = "start"
    /\ LET r == process_diagnoses(lines, <<>>, <<>>)
       IN  /\ codes' = r.codes
           /\ codeOrder' = r.order
    /\ hpc' = "loaded"
    /\ UNCHANGED <<prep, lines, hierarchy, todo, current, ancestors>>
    /\ HierFrame

\* list.sort() on a list of codes: the codes of the model in string order,
\* each as often as it occurs
HOrder == <<"E11", "E11.65", "E11.9">>
SortCodes(cs) ==
    LET copies(k) == [i \in 1..Cardinality({j \in DOMAIN cs : cs[j] = k}) |-> k]
    IN  copies(HOrder[1]) \o copies(HOrder[2]) \o copies(HOrder[3])

\* ICD10XMLPreprocessor.build_relationships on a code map: for every code in
\* dict order, codes[parent_code]['children'].append(code_id); then every
\* children list is sorted
RECURSIVE AppendChildren(_, _)
AppendChildren(cs, ord) ==
    IF ord = <<>> THEN cs
    ELSE LET c == Head(ord)
             P == cs[c].parent_code
         IN  AppendChildren(IF P # "" /\ P \in DOMAIN cs
                            THEN [cs EXCEPT ![P].children = Append(cs[P].children, c)]
                            ELSE cs,
                            Tail(ord))

XMLRelationships(cs, ord) ==
    LET appended == AppendChildren(cs, ord)
    IN  [c \in DOMAIN cs |->
            [appended[c] EXCEPT !.children = SortCodes(appended[c].children)]]

\* ICD10XMLPreprocessor.build_relationships: children only
XMLBuild ==
    /\ prep = "xml" /\ hpc = "loaded"
    /\ codes' = XMLRelationships(codes, codeOrder)
    /\ hpc' = "built"
    /\ UNCHANGED <<prep, lines, codeOrder, hierarchy, todo, current, ancestors>>
    /\ HierFrame

NextHier ==
    \/ LoadCodes
    \/ AddChildren
    \/ WalkStart
    \/ WalkStep
    \/ WalkEnd
    \/ Siblings
    \/ XMLParse
    \/ XMLBuild

\* the passes are statements of one sequential run: a step that can be taken
\* is taken
SpecHier == InitHier /\ [][NextHier]_vars /\ WF_vars(NextHier)

\* C16: for every input of ICD10Preprocessor, records that name themselves
\* as parent and parent links that form a cycle included,
\* build_relationships returns, and then no code occurs in its own
\* 'ancestors'.
C16_NoSelfAncestor ==
    <>(\/ prep = "xml"
       \/ /\ hpc = "built"
          /\ \A c \in DOMAIN codes : c \notin Range(codes[c].ancestors))

\* C23: after the passes of either ICD-10 preprocessor, for all stored codes
\* c and P, c is among the children of P exactly when the parent_code of c
\* is P, also when a code occurs on several lines with different parents.
C23_ChildrenReverseParents ==
    hpc = "built" =>
        \A c, P \in DOMAIN codes :
            (c \in (IF prep = "text" THEN codes[P].children
                    ELSE Range(codes[P].children)))
                <=> codes[c].parent_code = P

\* C21: for every finite input, a code that is its own parent and parent
\* links that form a cycle included, the run of load_codes and
\* build_relationships (parse_xml and build_relationships for the XML
\* preprocessor) reaches its end.
C21_BuildRelationshipsTerminates == <>(hpc = "built")

\* C17: after the passes of either ICD-10 preprocessor, every stored code c
\* whose parent_code P is a stored code is in the children of P, and the
\* ancestors of c contain P and every ancestor of P.
C17_HierarchyRoundTrip ==
    hpc = "built" =>
        \A c \in DOMAIN codes :
            codes[c].parent_code \in DOMAIN codes =>
                LET P == codes[c].parent_code
                IN  /\ c \in (IF prep = "text" THEN codes[P].children
                              ELSE Range(codes[P].children))
                    /\ "ancestors" \in DOMAIN codes[c]
                    /\ P \in Range(codes[c].ancestors)
                    /\ Range(codes[P].ancestors) \subseteq Range(codes[c].ancestors)

----------------------------------------------------------------------------
(* SpecRebuild: the relationship-building step run a second time on the
   concept map the first run produced *)

\* the ancestor loop of build_relationships from `current` on, for a chain
\* that ends
RECURSIVE Chain(_, _)
Chain(cs, cur) ==
    IF cur # "" /\ cur \in DOMAIN cs THEN <<cur>> \o Chain(cs, cs[cur].parent_code)
    ELSE <<>>

\* ICD10Preprocessor.build_relationships on a code map on which its ancestor
\* loop ends: the three loops assign children, ancestors and siblings
build_relationships(cs, h) ==
    [c \in DOMAIN cs |->
        [cs[c] EXCEPT
            !.children = IF c \in DOMAIN h THEN h[c] ELSE cs[c].children,
            !.ancestors = Chain(cs, cs[c].parent_code),
            !.siblings = IF cs[c].parent_code # "" /\ cs[c].parent_code \in DOMAIN h
                         THEN h[cs[c].parent_code] \ {c} ELSE cs[c].siblings]]

\* the active concepts of SnomedPreprocessor.load_concepts
SnomedConcepts == {"E11", "E11.9"}

\* the active IS-A rows of the relationship file: sourceId in `code`,
\* destinationId in `parent`
RelationshipRows ==
    UNION {[1..n -> [code : HCodes, parent : HCodes]] : n \in 1..MaxLines}

\* SnomedPreprocessor.load_relationships on the concept objects: for a row
\* between two stored concepts, concepts[source]['parents'].append(dest) and
\* concepts[dest]['children'].append(source)
RECURSIVE load_relationships(_, _)
load_relationships(cs, rows) ==
    IF rows = <<>> THEN cs
    ELSE LET src == Head(rows).code
             dst == Head(rows).parent
             withParent == [cs EXCEPT ![src].parents = Append(cs[src].parents, dst)]
         IN  load_relationships(
                 IF src \in DOMAIN cs /\ dst \in DOMAIN cs
                 THEN [withParent EXCEPT
                         ![dst].children = Append(withParent[dst].children, src)]
                 ELSE cs,
                 Tail(rows))

InitRebuild ==
    /\ prep \in {"text", "xml", "snomed"}
    /\ lines \in (CASE prep = "text" -> TextSources
                    [] prep = "xml" -> XMLSources
                    [] prep = "snomed" -> RelationshipRows)
    /\ codes = <<>>
    /\ codeOrder = <<>>
    /\ hierarchy = <<>>
    /\ hpc = "start"
    /\ todo = <<>>
    /\ current = ""
    /\ ancestors = <<>>
    /\ query = <<>>
    /\ NoScore
    /\ NoIndex
    /\ NoLoader
    /\ NoOrch
    /\ NoParse
    /\ NoSave

\* SnomedPreprocessor.load_concepts: the concept objects with empty
\* 'parents' and 'children'
SnomedLoadConcepts ==
    /\ prep = "snomed" /\ hpc = "start"
    /\ codes' = [c \in SnomedConcepts |-> [code |-> c, parents |-> <<>>, children |-> <<>>]]
    /\ hpc' = "loaded"
    /\ UNCHANGED <<prep, lines, codeOrder, hierarchy, todo, current, ancestors>>
    /\ HierFrame

\* SnomedPreprocessor.load_relationships
SnomedRelationships ==
    /\ prep = "snomed" /\ hpc = "loaded"
    /\ codes' = load_relationships(codes, lines)
    /\ hpc' = "built"
    /\ UNCHANGED <<prep, lines, codeOrder, hierarchy, todo, current, ancestors>>
    /\ HierFrame

\* the relationship-building step once more, on the map as it is
Rebuild ==
    /\ hpc = "built"
    /\ codes' = CASE prep = "text" -> build_relationships(codes, hierarchy)
                  [] prep = "xml" -> XMLRelationships(codes, codeOrder)
                  [] prep = "snomed" -> load_relationships(codes, lines)
    /\ hpc' = "rebuilt"
    /\ UNCHANGED <<prep, lines, codeOrder, hierarchy, todo, current, ancestors>>
    /\ HierFrame

NextRebuild ==
    \/ NextHier
    \/ SnomedLoadConcepts
    \/ SnomedRelationships
    \/ Rebuild

SpecRebuild == InitRebuild /\ [][NextRebuild]_vars

\* C22: a second run of the relationship-building step on the concept map
\* that one run produced leaves every concept's children, ancestors, siblings
\* and parents as they were.
C22_RebuildIsIdempotent == [][hpc' = "rebuilt" => codes' = codes]_vars

----------------------------------------------------------------------------
(* SpecSave: save_processed_data of the preprocessors into an empty
   directory, then the preprocessed load of the matching loader *)

MaxSaved == 3
\* chunk_size of SnomedPreprocessor.save_processed_data, scaled from 10000
ChunkSize == 2

Savers ==
    {"SnomedPreprocessor", "RxNormPreprocessor", "LoincPreprocessor",
     "ICD10Preprocessor", "ICD10XMLPreprocessor"}

SaveCodes == <<"K1", "K2", "K3">>

\* the partition keys: LOINC CLASS, RxNorm tty, the ICD-10 level (the text of
\* the first column for ICD10Preprocessor, the integer of determine_level for
\* ICD10XMLPreprocessor); SNOMED concepts carry none
PartKeys(ps) ==
    CASE ps = "LoincPreprocessor" -> {<<"A", "/", "B">>, <<"A", "_", "B">>, <<"C">>}
      [] ps = "RxNormPreprocessor" -> {<<"I", "N">>, <<"S", "C", "D">>}
      [] ps = "ICD10Preprocessor" -> {<<"1">>, <<"2">>}
      [] ps = "ICD10XMLPreprocessor" -> {1, 2}
      [] OTHER -> {<<>>}

\* the concept maps a preprocessor hands to save_processed_data, in insertion
\* order; `part` is the field the partition key is read from
SavedMaps(ps) ==
    UNION {{[i \in 1..n |-> [code |-> SaveCodes[i], preferred_term |-> <<"a">>,
                             part |-> k[i]]] : k \in [1..n -> PartKeys(ps)]} :
              n \in 1..MaxSaved}

DecimalDigits == <<"0", "1", "2", "3", "4", "5", "6", "7", "8", "9">>

\* str(n) / f"{n}"
RECURSIVE Str(_)
Str(n) ==
    IF n < 10 THEN <<DecimalDigits[n + 1]>>
    ELSE Str(n \div 10) \o <<DecimalDigits[(n % 10) + 1]>>

\* f"{n:04d}"
Pad4(n) == [i \in 1..(4 - Len(Str(n))) |-> "0"] \o Str(n)

\* loinc_class.replace('/', '_')
SafeClass(t) == [i \in DOMAIN t |-> IF t[i] = "/" THEN "_" ELSE t[i]]

\* the name of the file a partition is written to
FileName(ps, k) ==
    CASE ps = "LoincPreprocessor" -> [stem |-> "concepts_", rest |-> SafeClass(k)]
      [] ps = "RxNormPreprocessor" -> [stem |-> "concepts_", rest |-> k]
      [] ps = "ICD10Preprocessor" -> [stem |-> "codes_level_", rest |-> k]
      [] ps = "ICD10XMLPreprocessor" -> [stem |-> "codes_level_", rest |-> Str(k)]
      [] OTHER -> [stem |-> "concepts_", rest |-> <<"c", "h", "u", "n", "k", "_">> \o Pad4(k)]

\* the JSON object of a sequence of concept records: code -> record
MapOf(rs) ==
    [c \in {rs[i].code : i \in DOMAIN rs} |->
        rs[CHOOSE i \in DOMAIN rs : rs[i].code = c]]

\* the keys of concepts_by_class / concepts_by_type / codes_by_level, in the
\* order of their first concept
RECURSIVE PartOrder(_, _)
PartOrder(rs, seen) ==
    IF rs = <<>> THEN seen
    ELSE PartOrder(Tail(rs), IF Head(rs).part \in Range(seen) THEN seen
                             ELSE Append(seen, Head(rs).part))

\* `for key, part in by_key.items(): open(file of key, 'wt'); json.dump(part)`:
\* opening for writing replaces a file of that name
RECURSIVE WriteParts(_, _, _, _)
WriteParts(ps, keys, rs, dir) ==
    IF keys = <<>> THEN dir
    ELSE WriteParts(ps, Tail(keys), rs,
                    Assign(dir, FileName(ps, Head(keys)),
                           MapOf(SelectSeq(rs, LAMBDA r : r.part = Head(keys)))))

\* SnomedPreprocessor: for i in range(0, len(items), chunk_size)
RECURSIVE WriteChunks(_, _, _)
WriteChunks(rs, n, dir) ==
    IF rs = <<>> THEN dir
    ELSE LET m == IF Len(rs) < ChunkSize THEN Len(rs) ELSE ChunkSize
         IN  WriteChunks(SubSeq(rs, m + 1, Len(rs)), n + 1,
                         Assign(dir, FileName("SnomedPreprocessor", n),
                                MapOf(SubSeq(rs, 1, m))))

\* save_processed_data: the concept files and the keys of metadata.json (a
\* JSON object key is a string)
save_processed_data(ps, rs) ==
    IF ps = "SnomedPreprocessor"
    THEN [files |-> WriteChunks(rs, 0, <<>>), keys |-> <<>>]
    ELSE [files |-> WriteParts(ps, PartOrder(rs, <<>>), rs, <<>>),
          keys |-> [i \in DOMAIN PartOrder(rs, <<>>) |->
                        IF ps = "ICD10XMLPreprocessor" THEN Str(PartOrder(rs, <<>>)[i])
                        ELSE PartOrder(rs, <<>>)[i]]]

\* self.concepts.update(chunk) for every file of names
UpdateFrom(dir, names) ==
    [c \in UNION {DOMAIN dir[f] : f \in names} |->
        dir[CHOOSE f \in names : c \in DOMAIN dir[f]][c]]

\* PreprocessedDataLoader.load_preprocessed reads every concepts_*.json.gz;
\* ICD10Loader._load_preprocessed_data reads codes_level_<level>.json.gz, if
\* it exists, for every key of metadata['codes_by_level']
PreprocessedConcepts(ps, dir, keys) ==
    IF ps \in {"ICD10Preprocessor", "ICD10XMLPreprocessor"}
    THEN UpdateFrom(dir, {f \in DOMAIN dir :
                            /\ f.stem = "codes_level_"
                            /\ f.rest \in Range(keys)})
    ELSE UpdateFrom(dir, {f \in DOMAIN dir : f.stem = "concepts_"})

InitSave ==
    /\ saver \in Savers
    /\ saved \in SavedMaps(saver)
    /\ files = <<>>
    /\ metadata = <<>>
    /\ savePc = "start"
    /\ reloaded = <<>>
    /\ query = <<>>
    /\ NoScore
    /\ NoIndex
    /\ NoLoader
    /\ NoOrch
    /\ NoParse
    /\ NoHier

SaveFrame ==
    UNCHANGED <<query, scoreVars, indexVars, loaderVars, orchVars, parseVars, hierVars>>

\* save_processed_data into the empty output directory
Save ==
    /\ savePc = "start"
    /\ files' = save_processed_data(saver, saved).files
    /\ metadata' = save_processed_data(saver, saved).keys
    /\ savePc' = "saved"
    /\ UNCHANGED <<saver, saved, reloaded>>
    /\ SaveFrame

\* the preprocessed load of a fresh loader on that directory
Reload ==
    /\ savePc = "saved"
    /\ reloaded' = PreprocessedConcepts(saver, files, metadata)
    /\ savePc' = "reloaded"
    /\ UNCHANGED <<saver, saved, files, metadata>>
    /\ SaveFrame

NextSave == Save \/ Reload

SpecSave == InitSave /\ [][NextSave]_vars

\* C15: the concept map read back from the directory that
\* save_processed_data wrote has the codes of the map that was saved and,
\* for every code, the same fields, for every preprocessor and every
\* assignment of partition keys (two LOINC classes that differ only by '/'
\* versus '_' included).
C15_SaveLoadRoundTrip ==
    savePc = "reloaded" => reloaded = MapOf(saved)


----------------------------------------------------------------------------
(* SpecTokens: the inverted index of the SNOMED and RxNorm preprocessors  *)
(* and the index-restricted search on it                                  *)

MaxIndexSyn == 6    \* longest synonym list of an indexed concept
MaxIndexed == 2     \* concepts of an indexed store
\* concept['synonyms'][:5] of SnomedPreprocessor.create_search_index
SnomedIndexedSynonyms == 5
\* concept['synonyms'][:3] of RxNormPreprocessor.create_search_index
RxNormIndexedSynonyms == 3

\* re.findall(r'[a-z0-9]+', text)
AlnumWords(s) == RunsFrom(s, 1, <<>>, Letters \cup Digits)

\* SnomedPreprocessor.tokenize
SnomedTokenize(text) == SelectSeq(LetterWords(Lower(text)), LAMBDA w : Len(w) > 2)

\* RxNormPreprocessor.tokenize
RxNormTokenize(text) == SelectSeq(AlnumWords(Lower(text)), LAMBDA w : Len(w) > 1)

TokenizeOf(k, text) ==
    IF k = "SNOMED" THEN SnomedTokenize(text) ELSE RxNormTokenize(text)

\* every text of the concept, whether create_search_index reads it or not
EveryField(k, c) ==
    IF k = "SNOMED" THEN <<c.preferred_term>> \o c.synonyms
    ELSE <<c.preferred_term>> \o c.brand_names \o c.synonyms

\* the texts create_search_index tokenizes for one concept, in its order
IndexedFields(k, c) ==
    IF k = "SNOMED"
    THEN (IF c.preferred_term # <<>> THEN <<c.preferred_term>> ELSE <<>>)
         \o Truncate(c.synonyms, SnomedIndexedSynonyms)
    ELSE <<c.preferred_term>> \o c.brand_names
         \o Truncate(c.synonyms, RxNormIndexedSynonyms)

RECURSIVE FieldWords(_, _)
FieldWords(k, fields) ==
    IF fields = <<>> THEN <<>>
    ELSE TokenizeOf(k, Head(fields)) \o FieldWords(k, Tail(fields))

\* set.add of a code; the set is kept as the list it is serialised to
SetAdd(cs, code) == IF code \in Range(cs) THEN cs ELSE Append(cs, code)

\* for word in words: word_index[word].add(code)
RECURSIVE AddWords(_, _, _)
AddWords(idx, words, code) ==
    IF words = <<>> THEN idx
    ELSE LET w == Head(words)
             old == IF w \in DOMAIN idx THEN idx[w] ELSE <<>>
         IN  AddWords(Assign(idx, w, SetAdd(old, code)), Tail(words), code)

\* the loop of create_search_index over concepts.items()
RECURSIVE BuildWordIndex(_, _, _)
BuildWordIndex(k, store, idx) ==
    IF store = <<>> THEN idx
    ELSE BuildWordIndex(k, Tail(store),
             AddWords(idx, FieldWords(k, IndexedFields(k, Head(store))),
                      Head(store).code))

\* SnomedPreprocessor.create_search_index / RxNormPreprocessor.create_search_index:
\* token -> list(set of codes)
OntologyCreateSearchIndex(k, store) == BuildWordIndex(k, store, <<>>)

\* the index as the loader reads it: search_with_index only ever collects
\* the lists into a set
AsSets(idx) == [t \in DOMAIN idx |-> Range(idx[t])]

TokenTexts ==
    {<<"A", "b", "e", "-", "a", "b">>, <<"a", "1", "b">>,
     <<"t", "h", "e", " ", "a", "b", "e">>}
SynonymTexts == {<<"b", "a", "t">>, <<"h", "a", "t">>}
BrandLists == {<<>>, <<<<"B", "a", "t">>>>}
TokenQueries ==
    {<<"a", "b", "e">>, <<"A", "b", "e", ",">>, <<"a", "b", "-", "h", "a", "t">>,
     <<"b", "a", "t">>, <<"(", "h", "a", "t", ")">>, <<"a", "1", "b">>}
TokenCodes == <<"C1", "C2", "C3">>

TokenRec(k, code, term, syn, brands) ==
    IF k = "SNOMED"
    THEN [code |-> code, preferred_term |-> term, synonyms |-> syn]
    ELSE [code |-> code, preferred_term |-> term, synonyms |-> syn,
          brand_names |-> brands]

TokenStores(k) ==
    UNION {
        {[i \in 1..n |-> TokenRec(k, TokenCodes[i], terms[i],
                                  IF i = 1 THEN syn ELSE <<>>,
                                  IF i = 1 THEN brands ELSE <<>>)] :
            terms \in [1..n -> TokenTexts],
            syn \in SeqsUpTo(SynonymTexts, MaxIndexSyn),
            brands \in (IF k = "SNOMED" THEN {<<>>} ELSE BrandLists)}
        : n \in 1..MaxIndexed}

InitTokens ==
    /\ kind \in {"SNOMED", "RxNorm"}
    /\ concepts \in TokenStores(kind)
    /\ search_index = <<>>
    /\ query = <<>>
    /\ limit = 0
    /\ results = <<>>
    /\ phase = "raw"
    /\ disk = <<>>
    /\ loader = <<>>
    /\ lastCall = <<>>
    /\ loadCalls = 0
    /\ diskChanges = 0
    /\ flips = 0
    /\ NoScore
    /\ NoOrch
    /\ NoRest

\* the preprocessing run of the ontology builds the index of its store
BuildTokenIndex ==
    /\ phase = "raw"
    /\ search_index' = OntologyCreateSearchIndex(kind, concepts)
    /\ phase' = "indexed"
    /\ UNCHANGED <<query, concepts, limit, results, scoreVars, loaderVars,
                   orchVars, restVars>>

\* PreprocessedDataLoader.search with a non-empty index
SearchTokenIndex ==
    /\ phase = "indexed"
    /\ DOMAIN search_index # {}
    /\ \E q \in TokenQueries, n \in {MaxLimit} :
        \E order \in Orders(MatchingCodes(AsSets(search_index), q)) :
            /\ query' = q
            /\ limit' = n
            /\ results' = search_with_index(concepts, AsSets(search_index), q, n, order)
    /\ phase' = "searched"
    /\ UNCHANGED <<concepts, search_index, scoreVars, loaderVars, orchVars, restVars>>

NextTokens == BuildTokenIndex \/ SearchTokenIndex

SpecTokens == InitTokens /\ [][NextTokens]_vars

\* the texts of c that are to be indexed: the preferred term, the first 5
\* synonyms (SNOMED), the brand names and the first 3 synonyms (RxNorm)
LeadingFields(k, c) ==
    {c.preferred_term}
    \cup {c.synonyms[i] : i \in DOMAIN c.synonyms \cap 1..(IF k = "SNOMED" THEN 5 ELSE 3)}
    \cup (IF k = "SNOMED" THEN {} ELSE Range(c.brand_names))

\* the tokens of those texts
TokensOf(k, c) == UNION {Range(TokenizeOf(k, f)) : f \in LeadingFields(k, c)}

AllTokens(k, store) ==
    UNION {Range(FieldWords(k, EveryField(k, store[i]))) : i \in DOMAIN store}

NoDuplicate(cs) == \A i, j \in DOMAIN cs : cs[i] = cs[j] => i = j

\* C27: after create_search_index a code is listed under a token exactly when
\* the ontology's tokenize() produces the token from the concept's preferred
\* term or one of its indexed leading fields (first 5 synonyms for SNOMED,
\* brand names and first 3 synonyms for RxNorm); no list holds a code twice,
\* every listed code is a key of the concept map, and every token has the
\* tokenizer's minimum length.
C27_IndexContents ==
    phase \in {"indexed", "searched"}
    => /\ \A t \in DOMAIN search_index \cup AllTokens(kind, concepts) :
            \A c \in Codes(concepts) :
                (t \in DOMAIN search_index /\ c \in Range(search_index[t]))
                <=> t \in TokensOf(kind, ConceptOf(concepts, c))
       /\ \A t \in DOMAIN search_index :
            /\ NoDuplicate(search_index[t])
            /\ search_index[t] # <<>>
            /\ Range(search_index[t]) \subseteq Codes(concepts)
            /\ Len(t) > (IF kind = "SNOMED" THEN 2 ELSE 1)
            /\ Range(t) \subseteq
                   (IF kind = "SNOMED" THEN Letters ELSE Letters \cup Digits)

\* an index built from a concept whose sixth synonym is the only text with
\* its token, next to a token two fields of one concept share
C27_SixthSynonymLeftOut ==
    /\ phase = "indexed"
    /\ kind = "SNOMED"
    /\ Len(concepts[1].synonyms) > SnomedIndexedSynonyms
    /\ <<"h", "a", "t">> \in AllTokens(kind, concepts) \ DOMAIN search_index
    /\ <<"b", "a", "t">> \in DOMAIN search_index
    /\ Len(concepts) > 1

\* C24: every code listed under an index token that the ontology's tokenize()
\* produces from the query is a candidate of search_with_index.
C24_QueryTokenizedLikeIndex ==
    phase = "searched"
    => \A t \in DOMAIN search_index \cap Range(TokenizeOf(kind, query)) :
            Range(search_index[t]) \subseteq MatchingCodes(AsSets(search_index), query)

----------------------------------------------------------------------------
(* SpecResave: two preprocessing runs into one output directory, then the  *)
(* preprocessed load                                                       *)

\* the concept files after save_processed_data has run on a directory that
\* holds `dir` already: every file it opens is replaced, no file is removed
SaveOver(ps, rs, dir) ==
    IF ps = "SnomedPreprocessor" THEN WriteChunks(rs, 0, dir)
    ELSE WriteParts(ps, PartOrder(rs, <<>>), rs, dir)

\* a later preprocessing run, over another source, into the same directory
SaveAgain ==
    /\ savePc = "saved"
    /\ \E rs \in SavedMaps(saver) :
        /\ saved' = rs
        /\ files' = SaveOver(saver, rs, files)
        /\ metadata' = save_processed_data(saver, rs).keys
    /\ savePc' = "resaved"
    /\ UNCHANGED <<saver, reloaded>>
    /\ SaveFrame

\* the preprocessed load of a fresh loader after the later run
ReloadAgain ==
    /\ savePc = "resaved"
    /\ reloaded' = PreprocessedConcepts(saver, files, metadata)
    /\ savePc' = "loaded"
    /\ UNCHANGED <<saver, saved, files, metadata>>
    /\ SaveFrame

NextResave == Save \/ SaveAgain \/ ReloadAgain

SpecResave == InitSave /\ [][NextResave]_vars

\* C25: after two preprocessing runs into the same output directory the
\* preprocessed load returns exactly the concepts of the most recent run; no
\* concept that exists only in a file left by the earlier run is loaded.
C25_StoreIsFullyRebuilt ==
    savePc = "loaded" => DOMAIN reloaded = DOMAIN MapOf(saved)

----------------------------------------------------------------------------
(* SpecTerms: the description rows of one active SNOMED concept and the    *)
(* preferred term the preprocessor and the runtime loader derive from them *)

MaxDescriptions == 3    \* description rows of the concept

FSN_TYPE == "900000000000003001"
SYNONYM_TYPE == "900000000000013009"
DEFINITION_TYPE == "900000000000550004"

TermConcept == <<"7">>

\* the rows of sct2_Description for the concept: typeId, term, active
DescriptionRows ==
    [typeId : {SYNONYM_TYPE}, term : {<<"s">>, <<"t">>}, active : BOOLEAN]
    \cup [typeId : {FSN_TYPE}, term : {<<"f", " ", "(", "d", ")">>, <<"g">>},
          active : {TRUE}]
    \cup [typeId : {DEFINITION_TYPE}, term : {<<"d">>}, active : {TRUE}]

\* str.rfind('('): the last position of '(' (0: none)
RFindParen(s) ==
    IF \E i \in DOMAIN s : s[i] = "(" THEN CHOOSE i \in DOMAIN s :
            s[i] = "(" /\ \A j \in DOMAIN s : s[j] = "(" => j <= i
    ELSE 0

\* str.strip()
RECURSIVE Strip(_)
Strip(s) ==
    IF s = <<>> THEN s
    ELSE IF Head(s) = " " THEN Strip(Tail(s))
    ELSE IF s[Len(s)] = " " THEN Strip(SubSeq(s, 1, Len(s) - 1))
    ELSE s

\* fsn[:fsn.rfind('(')].strip() if '(' in fsn else fsn
WithoutTag(fsn) ==
    IF RFindParen(fsn) > 0 THEN Strip(SubSeq(fsn, 1, RFindParen(fsn) - 1)) ELSE fsn

\* f"Concept {concept_id}"
Placeholder(id) == <<"C", "o", "n", "c", "e", "p", "t", " ">> \o id

\* the loop of SnomedPreprocessor.load_descriptions over the rows: the last
\* active FSN row is kept as fsn, every active synonym row is appended
RECURSIVE PreprocessorDescriptions(_, _)
PreprocessorDescriptions(rows, c) ==
    IF rows = <<>> THEN c
    ELSE LET r == Head(rows)
             nxt == IF ~r.active THEN c
                    ELSE IF r.typeId = FSN_TYPE THEN [c EXCEPT !.fsn = r.term]
                    ELSE IF r.typeId = SYNONYM_TYPE
                         THEN [c EXCEPT !.synonyms = Append(@, r.term)]
                    ELSE c
         IN  PreprocessorDescriptions(Tail(rows), nxt)

\* SnomedPreprocessor.load_descriptions: the concept after the final loop
load_descriptions(id, rows) ==
    LET c == PreprocessorDescriptions(rows, [fsn |-> None, synonyms |-> <<>>])
    IN  [stored |-> TRUE,
         synonyms |-> c.synonyms,
         preferred_term |->
            IF c.synonyms # <<>> THEN c.synonyms[1]
            ELSE IF c.fsn # None /\ c.fsn # <<>> THEN WithoutTag(c.fsn)
            ELSE Placeholder(id)]

\* the description loop of SnomedLoader.load: a synonym-type row sets the
\* preferred term, every other active row is appended to the synonyms
RECURSIVE LoaderDescriptions(_, _)
LoaderDescriptions(rows, c) ==
    IF rows = <<>> THEN c
    ELSE LET r == Head(rows)
             nxt == IF ~r.active THEN c
                    ELSE IF r.typeId = SYNONYM_TYPE
                         THEN [c EXCEPT !.preferred_term = r.term]
                    ELSE [c EXCEPT !.synonyms = Append(@, r.term)]
         IN  LoaderDescriptions(Tail(rows), nxt)

\* SnomedLoader.load: the concept is stored when it has a preferred term
SnomedLoaderTerm(id, rows) ==
    LET c == LoaderDescriptions(rows, [preferred_term |-> None, synonyms |-> <<>>])
    IN  [stored |-> c.preferred_term # None /\ c.preferred_term # <<>>,
         synonyms |-> c.synonyms,
         preferred_term |-> c.preferred_term]

TermOf(ps, id, rows) ==
    IF ps = "SnomedPreprocessor" THEN load_descriptions(id, rows)
    ELSE SnomedLoaderTerm(id, rows)

InitTerms ==
    /\ parser \in {"SnomedPreprocessor", "SNOMED"}
    /\ path = IF parser = "SNOMED" THEN "raw" ELSE "preprocessed"
    /\ source \in SeqsUpTo(DescriptionRows, MaxDescriptions)
    /\ parsed = [outcome |-> "none", concepts |-> <<>>]
    /\ found = [made |-> FALSE, raised |-> FALSE, value |-> <<>>]
    /\ query = <<>>
    /\ NoScore
    /\ NoIndex
    /\ NoLoader
    /\ NoOrch
    /\ NoHier
    /\ NoSave

\* the parser reads the description file of the concept
LoadDescriptions ==
    /\ parsed.outcome = "none"
    /\ parsed' = [outcome |-> "returned",
                  concepts |-> <<TermOf(parser, TermConcept, source)>>]
    /\ UNCHANGED <<parser, path, source, found, query>>
    /\ ParseFrame

NextTerms == LoadDescriptions

SpecTerms == InitTerms /\ [][NextTerms]_vars

ActiveTerms(rows, type) ==
    LET rs == SelectSeq(rows, LAMBDA r : r.active /\ r.typeId = type)
    IN  [i \in DOMAIN rs |-> rs[i].term]

\* the terms the fixed precedence allows for the rows
PrecedenceTerms(id, rows) ==
    IF ActiveTerms(rows, SYNONYM_TYPE) # <<>>
    THEN {ActiveTerms(rows, SYNONYM_TYPE)[1]}
    ELSE IF ActiveTerms(rows, FSN_TYPE) # <<>>
    THEN {WithoutTag(t) : t \in Range(ActiveTerms(rows, FSN_TYPE))}
    ELSE {Placeholder(id)}

\* C26: the preferred term of a SNOMED concept is the first-listed active
\* synonym; with no synonym the fully specified name without its semantic
\* tag; with no description a placeholder; and SnomedPreprocessor and
\* SnomedLoader choose the same term for the same rows.
C26_TermPrecedence ==
    parsed.outcome = "returned"
    => /\ parsed.concepts[1].stored
       /\ parsed.concepts[1].preferred_term \in PrecedenceTerms(TermConcept, source)
       /\ load_descriptions(TermConcept, source).preferred_term
            = SnomedLoaderTerm(TermConcept, source).preferred_term

----------------------------------------------------------------------------
(* Failed and partly failed loads (SpecLoader) *)

\* C28: when the first load() of a concrete loader raises, is_loaded stays
\* false and the concept map is empty, so get_concept finds no concept.
C28_FailedLoadLeavesNothing ==
    (/\ lastCall.made
     /\ kind \in Names
     /\ lastCall.before = FreshLoader
     /\ lastCall.outcome = "raised")
    => /\ ~loader.is_loaded
       /\ loader.concepts = <<>>
       /\ \A c \in Range(CodesOf(kind)) : LoaderGetConcept(loader, c) = <<>>

\* C29: when load_preprocessed raises after it has merged a chunk and load()
\* falls back to load_raw, the loader ends with used_preprocessed = false,
\* is_loaded = true, and a concept map and search index that hold exactly
\* what the raw parser produced; and used_preprocessed implies is_loaded in
\* every state.
C29_FallbackLeavesRawOnly ==
    /\ (/\ lastCall.made
        /\ kind = "Preprocessed"
        /\ lastCall.before = FreshLoader
        /\ lastCall.disk.processed = "badchunk"
        /\ lastCall.disk.raw = "valid")
       => /\ lastCall.outcome = "returned"
          /\ ~loader.used_preprocessed
          /\ loader.is_loaded
          /\ loader.concepts = RawRows(kind)
          /\ loader.search_index = <<>>
    /\ loader.used_preprocessed => loader.is_loaded

----------------------------------------------------------------------------
(* Null preferred terms (SpecParse) *)

\* C30: after load() of a runtime loader has returned, every stored concept
\* has a preferred_term that is not null, for every source file (records
\* with missing trailing columns included), and no search on the loaded map
\* raises.
C30_TermsNeverNull ==
    (parsed.outcome = "returned" /\ parser \in RuntimeParsers)
    => /\ \A i \in DOMAIN parsed.concepts : parsed.concepts[i].preferred_term # None
       /\ found.made => ~found.raised
====
